---------------------------- MODULE Spec2Model ----------------------------
(***************************************************************************)
(* Model of the kadena client library: encoding utilities, the Blake2b     *)
(* digest, Ed25519 keypairs, and the command assembler Cmd::prepare_exec.  *)
(*                                                                         *)
(* A Rust String is a sequence of UTF-8 bytes, so every string of the      *)
(* program is modelled as a sequence of byte values (0..255); Vec<u8> and  *)
(* &[u8] are the same kind of sequence.  Str(<<"a","b">>) writes a literal. *)
(***************************************************************************)
EXTENDS Integers, Sequences, FiniteSets, Bags, TLC

VARIABLES
    signers,    \* the &[(&PactKeypair, Vec<Cap>)] the caller has assembled
    pc,         \* "build" while the caller assembles, then the operation run
    call,       \* the last operation and its arguments (NoCall before)
    ret,        \* what the last operation returned (or that it panicked)
    prev,       \* what the caller held before it: the preceding result
    signLog,    \* messages handed to PactKeypair::sign by the last prepare_exec
    rngLog      \* random draws consumed by the last prepare_exec

vars == <<signers, pc, call, ret, prev, signLog, rngLog>>

-----------------------------------------------------------------------------
(* Characters and literals *)

Printable ==
    <<" ", "!", "\"", "#", "$", "%", "&", "'", "(", ")", "*", "+", ",", "-",
      ".", "/", "0", "1", "2", "3", "4", "5", "6", "7", "8", "9", ":", ";",
      "<", "=", ">", "?", "@", "A", "B", "C", "D", "E", "F", "G", "H", "I",
      "J", "K", "L", "M", "N", "O", "P", "Q", "R", "S", "T", "U", "V", "W",
      "X", "Y", "Z", "[", "\\", "]", "^", "_", "grave", "a", "b", "c", "d", "e",
      "f", "g", "h", "i", "j", "k", "l", "m", "n", "o", "p", "q", "r", "s",
      "t", "u", "v", "w", "x", "y", "z", "{", "|", "}", "~">>

Ord(c) == 31 + (CHOOSE i \in 1..Len(Printable) : Printable[i] = c)

\* The sequence f as an explicit tuple: the same value, with every element
\* computed once instead of on each access.
Seq1(f) == f \o <<>>

Str(cs) == Seq1([i \in 1..Len(cs) |-> Ord(cs[i])])

Ok(v) == [ok |-> TRUE, val |-> v, err |-> "none"]

Err(e) == [ok |-> FALSE, val |-> <<>>, err |-> e]

\* Concatenation of a sequence of sequences (by halves, to keep recursion shallow).
RECURSIVE Flatten(_)
Flatten(ss) ==
    IF ss = <<>> THEN <<>>
    ELSE IF Len(ss) = 1 THEN ss[1]
    ELSE LET h == Len(ss) \div 2
         IN  Flatten(SubSeq(ss, 1, h)) \o Flatten(SubSeq(ss, h + 1, Len(ss)))

-----------------------------------------------------------------------------
(* crypto/encoding.rs *)

HexDigits == Str(<<"0","1","2","3","4","5","6","7","8","9","a","b","c","d","e","f">>)

\* (mutant) upper-case digits.
bin_to_hex_upper(data) ==
    Seq1([i \in 1..(2 * Len(data)) |->
        LET b == data[(i + 1) \div 2]
            d == IF i % 2 = 1 THEN HexDigits[(b \div 16) + 1] ELSE HexDigits[(b % 16) + 1]
        IN  IF d >= 97 THEN d - 32 ELSE d])

\* hex::encode: two lowercase digits per byte, high nibble first.
bin_to_hex(data) ==
    Seq1([i \in 1..(2 * Len(data)) |->
        LET b == data[(i + 1) \div 2]
        IN  IF i % 2 = 1 THEN HexDigits[(b \div 16) + 1] ELSE HexDigits[(b % 16) + 1]])

\* Value of one hex digit, -1 when the byte is no hex digit; both cases accepted.
HexVal(c) ==
    IF c >= 48 /\ c <= 57 THEN c - 48
    ELSE IF c >= 97 /\ c <= 102 THEN c - 87
    ELSE IF c >= 65 /\ c <= 70 THEN c - 55
    ELSE -1

\* (mutant) the low nibble is read first.
hex_to_bin_swapped(s) ==
    IF Len(s) % 2 = 1 THEN Err("HexError")
    ELSE IF \E i \in 1..Len(s) : HexVal(s[i]) = -1 THEN Err("HexError")
    ELSE Ok(Seq1([i \in 1..(Len(s) \div 2) |-> 16 * HexVal(s[2 * i]) + HexVal(s[2 * i - 1])]))

\* hex::decode behind `?`: odd length or a non-hex character is CryptoError::HexError.
hex_to_bin(s) ==
    IF Len(s) % 2 = 1 THEN Err("HexError")
    ELSE IF \E i \in 1..Len(s) : HexVal(s[i]) = -1 THEN Err("HexError")
    ELSE Ok(Seq1([i \in 1..(Len(s) \div 2) |-> 16 * HexVal(s[2 * i - 1]) + HexVal(s[2 * i])]))

B64Alphabet ==
    Str(<<"A","B","C","D","E","F","G","H","I","J","K","L","M","N","O","P","Q","R",
          "S","T","U","V","W","X","Y","Z","a","b","c","d","e","f","g","h","i","j",
          "k","l","m","n","o","p","q","r","s","t","u","v","w","x","y","z","0","1",
          "2","3","4","5","6","7","8","9","-","_">>)

\* The 6-bit group number k (from 1) of the big-endian bit string of `input`.
Sextet(input, k) ==
    LET bit0 == 6 * (k - 1)
        i    == bit0 \div 8
        off  == bit0 % 8
        hi   == input[i + 1]
        lo   == IF i + 2 <= Len(input) THEN input[i + 2] ELSE 0
    IN  (((hi * 256 + lo) \div (2 ^ (10 - off))) % 64)

\* URL_SAFE_NO_PAD.encode: ceil(8n/6) symbols, no '=' appended.
base64url_encode(input) ==
    Seq1([k \in 1..((8 * Len(input) + 5) \div 6) |-> B64Alphabet[Sextet(input, k) + 1]])

B64Val(c) ==
    IF c >= 65 /\ c <= 90 THEN c - 65
    ELSE IF c >= 97 /\ c <= 122 THEN c - 71
    ELSE IF c >= 48 /\ c <= 57 THEN c + 4
    ELSE IF c = 45 THEN 62
    ELSE IF c = 95 THEN 63
    ELSE -1

\* The byte number j (from 1) of the bit string spelled by the symbols of `s`.
B64Byte(s, j) ==
    LET bit0 == 8 * (j - 1)
        k    == bit0 \div 6
        off  == bit0 % 6
        a    == B64Val(s[k + 1])
        b    == B64Val(s[k + 2])
    IN  ((a * 64 + b) \div (2 ^ (4 - off))) % 256

\* URL_SAFE_NO_PAD.decode behind `?`: a byte outside the alphabet ('=' included),
\* a length of 1 mod 4, or non-zero trailing bits is CryptoError::Base64Error.
base64url_decode(s) ==
    LET n     == Len(s)
        nb    == (6 * n) \div 8
        spare == 6 * n - 8 * nb
    IN  IF \E i \in 1..n : B64Val(s[i]) = -1 THEN Err("Base64Error")
        ELSE IF n % 4 = 1 THEN Err("Base64Error")
        ELSE IF n > 0 /\ B64Val(s[n]) % (2 ^ spare) # 0 THEN Err("Base64Error")
        ELSE Ok(Seq1([j \in 1..nb |-> B64Byte(s, j)]))

-----------------------------------------------------------------------------
(* crypto/keypair.rs *)

KeyLen == 32            \* bytes of an Ed25519 secret seed and of a public key

SigLen == 64            \* bytes of an Ed25519 signature

DigestLen == 32         \* Blake2b<U32>

Panic == [ok |-> FALSE, val |-> <<>>, err |-> "panic"]

Panicked(r) == ~r.ok /\ r.err = "panic"

\* Blake2b256 (crate blake2) as a fixed-length keyless digest: DigestLen bytes,
\* a function of the input bytes alone.  The compression function is replaced
\* by a positional checksum over two sums, a = SUM (data[i] + 1) and
\* b = SUM i * (data[i] + 1) (BagCardinality adds up a bag's counts); what the
\* program relies on is kept: the output length, determinism, and sensitivity
\* to every input byte and to the length.
Blake2b256(data) ==
    LET a == BagCardinality([i \in 1..Len(data) |-> data[i] + 1]) % 65521
        b == BagCardinality([i \in 1..Len(data) |-> i * (data[i] + 1)]) % 65521
    IN  Seq1([i \in 1..DigestLen |->
            (((a + 17 * i) * (2 * i + 1) + b * (i + 2)) \div (2 ^ (i % 9))) % 256])

\* (mutant) the digest is encoded with padding.
hash_padded(data) == base64url_encode(Blake2b256(data)) \o <<61>>

hash(data) == base64url_encode(Blake2b256(data))

\* SigningKey::verifying_key: the public key is a function of the 32 seed bytes.
\* The curve arithmetic is replaced by a bytewise map whose last byte has its
\* top bit clear, so that not every 32-byte string is the encoding of a point.
VerifyingKeyOf(seed) ==
    Seq1([i \in 1..KeyLen |->
        IF i < KeyLen THEN (seed[i] * 7 + 11 * i + 3) % 256
        ELSE (seed[i] * 7 + 11 * i + 3) % 128])

\* VerifyingKey::from_bytes succeeds only on the encoding of a curve point.
IsCurvePoint(pub_bytes) == pub_bytes[KeyLen] < 128

\* The one signature Ed25519 (deterministic, RFC 8032) yields for a key and a
\* message, as R || S: both halves depend on the public key and on every byte
\* of the message through the challenge digest of (public key || message).
Ed25519Sig(pub_bytes, msg) ==
    LET h == Blake2b256(pub_bytes \o msg)
    IN  Seq1([i \in 1..SigLen |->
            IF i <= 32 THEN (h[i] + pub_bytes[i]) % 256
            ELSE (3 * h[i - 32] + pub_bytes[i - 32] + i) % 256])

\* (mutant) every signature of the right length is accepted.
Ed25519VerifyAny(pub_bytes, msg, sig_bytes) == Len(sig_bytes) = SigLen

\* verifying_key.verify(msg, &signature).is_ok()
Ed25519Verify(pub_bytes, msg, sig_bytes) == sig_bytes = Ed25519Sig(pub_bytes, msg)

PactKeypair(public_key, secret_key) ==
    [public_key |-> public_key, secret_key |-> secret_key]

\* PactKeypair::generate with the 32 bytes OsRng yields.
generate(rand_bytes) ==
    PactKeypair(bin_to_hex(VerifyingKeyOf(rand_bytes)), bin_to_hex(rand_bytes))

\* (mutant) a seed longer than 32 bytes is accepted.
from_secret_key_longer(seed) ==
    LET secret_bytes == hex_to_bin(seed)
    IN  IF ~secret_bytes.ok THEN Err(secret_bytes.err)
        ELSE IF Len(secret_bytes.val) < KeyLen THEN Err("InvalidSeedLength")
        ELSE Ok(PactKeypair(bin_to_hex(VerifyingKeyOf(secret_bytes.val)), seed))

\* (mutant) the seed is stored re-encoded.
from_secret_key_reencoded(seed) ==
    LET secret_bytes == hex_to_bin(seed)
    IN  IF ~secret_bytes.ok THEN Err(secret_bytes.err)
        ELSE IF Len(secret_bytes.val) # KeyLen THEN Err("InvalidSeedLength")
        ELSE Ok(PactKeypair(bin_to_hex(VerifyingKeyOf(secret_bytes.val)),
                            bin_to_hex(secret_bytes.val)))

\* PactKeypair::from_secret_key: the seed string is stored as given.
from_secret_key(seed) ==
    LET secret_bytes == hex_to_bin(seed)
    IN  IF ~secret_bytes.ok THEN Err(secret_bytes.err)
        ELSE IF Len(secret_bytes.val) # KeyLen THEN Err("InvalidSeedLength")
        ELSE Ok(PactKeypair(bin_to_hex(VerifyingKeyOf(secret_bytes.val)), seed))

\* (mutant) only the first half of the signature is encoded.
sign_half(kp, msg) ==
    LET secret_bytes == hex_to_bin(kp.secret_key)
    IN  IF ~secret_bytes.ok THEN Err(secret_bytes.err)
        ELSE IF Len(secret_bytes.val) # KeyLen THEN Panic
        ELSE Ok(bin_to_hex(SubSeq(Ed25519Sig(VerifyingKeyOf(secret_bytes.val), msg), 1, 32)))

\* PactKeypair::sign: `?` on the hex decoding, then try_into().unwrap(), which
\* panics when the decoded secret is not exactly 32 bytes.
sign(kp, msg) ==
    LET secret_bytes == hex_to_bin(kp.secret_key)
    IN  IF ~secret_bytes.ok THEN Err(secret_bytes.err)
        ELSE IF Len(secret_bytes.val) # KeyLen THEN Panic
        ELSE Ok(bin_to_hex(Ed25519Sig(VerifyingKeyOf(secret_bytes.val), msg)))

\* (mutant) a signature of any length is handed to the verifier.
verify_signature_any_length(msg, signature, public_key) ==
    LET sig_bytes == hex_to_bin(signature)
        pub_bytes == hex_to_bin(public_key)
    IN  IF ~sig_bytes.ok THEN Err(sig_bytes.err)
        ELSE IF ~pub_bytes.ok THEN Err(pub_bytes.err)
        ELSE IF Len(pub_bytes.val) # KeyLen THEN Err("InvalidSeedLength")
        ELSE IF ~IsCurvePoint(pub_bytes.val) THEN Err("Ed25519Error")
        ELSE Ok(Ed25519Verify(pub_bytes.val, msg, sig_bytes.val))

\* verify_signature(msg, signature, public_key)
verify_signature(msg, signature, public_key) ==
    LET sig_bytes == hex_to_bin(signature)
        pub_bytes == hex_to_bin(public_key)
    IN  IF ~sig_bytes.ok THEN Err(sig_bytes.err)
        ELSE IF ~pub_bytes.ok THEN Err(pub_bytes.err)
        ELSE IF Len(pub_bytes.val) # KeyLen THEN Err("InvalidSeedLength")
        ELSE IF Len(sig_bytes.val) # SigLen THEN Err("Ed25519Error")
        ELSE IF ~IsCurvePoint(pub_bytes.val) THEN Err("Ed25519Error")
        ELSE Ok(Ed25519Verify(pub_bytes.val, msg, sig_bytes.val))

\* (mutant) the message is left out of the check.
verify_no_message(kp, msg, signature) == verify_signature(<<>>, signature, kp.public_key)

\* PactKeypair::verify
verify(kp, msg, signature) == verify_signature(msg, signature, kp.public_key)

-----------------------------------------------------------------------------
(* Option<T>, serde_json::Value and the serde_json writer *)

\* Option<String> / Option<&str>: None keeps an empty string in the unused slot.
None == [some |-> FALSE, v |-> <<>>]

Some(x) == [some |-> TRUE, v |-> x]

JNull == [t |-> "null", v |-> <<>>]

\* Option<Value>::None
NoValue == [some |-> FALSE, v |-> JNull]

JStr(s) == [t |-> "str", v |-> s]

JInt(n) == [t |-> "int", v |-> n]

\* A finite non-negative f64 by its shortest decimal form digits * 10^exp.
F64(digits, exp) == [digits |-> digits, exp |-> exp]

JFloat(f) == [t |-> "float", v |-> f]

JArr(items) == [t |-> "arr", v |-> items]

\* Value::Object: members as <<key, value>> pairs in the map's iteration order.
JObj(members) == [t |-> "obj", v |-> members]

RECURSIVE Decimal(_)
Decimal(n) ==
    IF n < 0 THEN <<45>> \o Decimal(-n)
    ELSE IF n < 10 THEN <<48 + n>>
    ELSE Decimal(n \div 10) \o <<48 + (n % 10)>>

Zeros(n) == Seq1([i \in 1..n |-> 48])

DigitChars(ds) == Seq1([i \in 1..Len(ds) |-> 48 + ds[i]])

\* ryu's shortest formatting of an f64, as serde_json writes floats.
FormatF64(f) ==
    LET ds == DigitChars(f.digits)
        n  == Len(ds)
        k  == f.exp
        kk == n + k
    IN  IF f.digits = <<0>> THEN Str(<<"0", ".", "0">>)
        ELSE IF 0 <= k /\ kk <= 16 THEN ds \o Zeros(k) \o Str(<<".", "0">>)
        ELSE IF 0 < kk /\ kk <= 16 THEN SubSeq(ds, 1, kk) \o <<46>> \o SubSeq(ds, kk + 1, n)
        ELSE IF -5 < kk /\ kk <= 0 THEN Str(<<"0", ".">>) \o Zeros(-kk) \o ds
        ELSE IF n = 1 THEN ds \o <<101>> \o Decimal(kk - 1)
        ELSE <<ds[1], 46>> \o SubSeq(ds, 2, n) \o <<101>> \o Decimal(kk - 1)

\* serde_json's escape of one byte of a string.
EscapeByte(c) ==
    IF c = 34 THEN <<92, 34>>
    ELSE IF c = 92 THEN <<92, 92>>
    ELSE IF c = 8 THEN <<92, 98>>
    ELSE IF c = 12 THEN <<92, 102>>
    ELSE IF c = 10 THEN <<92, 110>>
    ELSE IF c = 13 THEN <<92, 114>>
    ELSE IF c = 9 THEN <<92, 116>>
    ELSE IF c < 32 THEN <<92, 117, 48, 48, HexDigits[(c \div 16) + 1], HexDigits[(c % 16) + 1]>>
    ELSE <<c>>

\* format_escaped_str: the bytes between quotes, each escaped where needed
\* (a string with nothing to escape is copied as it is).
SerString(s) ==
    IF \A i \in 1..Len(s) : s[i] >= 32 /\ s[i] # 34 /\ s[i] # 92
    THEN <<34>> \o s \o <<34>>
    ELSE <<34>> \o Flatten(Seq1([i \in 1..Len(s) |-> EscapeByte(s[i])])) \o <<34>>

RECURSIVE JoinComma(_)
JoinComma(texts) ==
    IF texts = <<>> THEN <<>>
    ELSE IF Len(texts) = 1 THEN texts[1]
    ELSE texts[1] \o <<44>> \o JoinComma(Tail(texts))

SerArray(texts) == <<91>> \o JoinComma(texts) \o <<93>>

\* One "key":value member; `key` needs no escaping (the field names are fixed).
SerField(key, text) == SerString(key) \o <<58>> \o text

SerObject(fields) == <<123>> \o JoinComma(fields) \o <<125>>

JsonNull == Str(<<"n", "u", "l", "l">>)

RECURSIVE SerValue(_)
SerValue(x) ==
    CASE x.t = "null"  -> JsonNull
      [] x.t = "str"   -> SerString(x.v)
      [] x.t = "int"   -> Decimal(x.v)
      [] x.t = "float" -> FormatF64(x.v)
      [] x.t = "arr"   -> SerArray(Seq1([i \in 1..Len(x.v) |-> SerValue(x.v[i])]))
      [] x.t = "obj"   ->
            SerObject(Seq1([i \in 1..Len(x.v) |-> SerField(x.v[i][1], SerValue(x.v[i][2]))]))

\* (mutant) None is written as the empty string.
SerOptStringEmpty(o) == IF o.some THEN SerString(o.v) ELSE <<34, 34>>

\* Option<String> with no skip attribute: None is written as null.
SerOptString(o) == IF o.some THEN SerString(o.v) ELSE JsonNull

-----------------------------------------------------------------------------
(* Reading JSON back, as serde_json::from_str does in the tests *)

\* The lexer's state <<mode, depth>> after byte c: mode 0 outside strings,
\* 1 inside a string, 2 right after a backslash inside a string.
LexStep(st, c) ==
    IF st[1] = 2 THEN <<1, st[2]>>
    ELSE IF st[1] = 1 THEN (IF c = 92 THEN <<2, st[2]>> ELSE IF c = 34 THEN <<0, st[2]>> ELSE st)
    ELSE IF c = 34 THEN <<1, st[2]>>
    ELSE IF c = 123 \/ c = 91 THEN <<0, st[2] + 1>>
    ELSE IF c = 125 \/ c = 93 THEN <<0, st[2] - 1>>
    ELSE st

\* For text[lo..hi] entered in state st: per byte, the nesting depth before it
\* (-1 for a byte inside a string), and the state after the last byte.
RECURSIVE LexScan(_, _, _, _)
LexScan(text, lo, hi, st) ==
    IF lo > hi THEN [codes |-> <<>>, fin |-> st]
    ELSE IF lo = hi
    THEN [codes |-> <<IF st[1] = 0 THEN st[2] ELSE -1>>, fin |-> LexStep(st, text[lo])]
    ELSE LET mid   == (lo + hi) \div 2
             left  == LexScan(text, lo, mid, st)
             right == LexScan(text, mid + 1, hi, left.fin)
         IN  [codes |-> left.codes \o right.codes, fin |-> right.fin]

JsonDepths(text) == LexScan(text, 1, Len(text), <<0, 0>>).codes

MinOf(S) == CHOOSE x \in S : \A y \in S : x <= y

\* The member `key` of the JSON object `text`: whether the object has the key
\* at its top level, and the text of its value.
Member(text, key) ==
    LET D    == JsonDepths(text)
        pat  == <<34>> \o key \o <<34, 58>>
        hits == {i \in 1..(Len(text) - Len(pat)) :
                    D[i] = 1 /\ text[i] = 34 /\ SubSeq(text, i, i + Len(pat) - 1) = pat}
        from == MinOf(hits) + Len(pat)
        to   == MinOf({e \in from..Len(text) : D[e] = 1 /\ (text[e] = 44 \/ text[e] = 125)})
    IN  IF hits = {} THEN [found |-> FALSE, text |-> <<>>]
        ELSE [found |-> TRUE, text |-> SubSeq(text, from, to - 1)]

\* Number of elements of the JSON array `text`.
ArrayLen(text) ==
    LET D == JsonDepths(text)
    IN  IF Len(text) <= 2 THEN 0
        ELSE 1 + Cardinality({i \in 1..Len(text) : D[i] = 1 /\ text[i] = 44})

UnescapeByte(c) ==
    IF c = 98 THEN 8 ELSE IF c = 102 THEN 12 ELSE IF c = 110 THEN 10
    ELSE IF c = 114 THEN 13 ELSE IF c = 116 THEN 9 ELSE c

RECURSIVE Unescape(_)
Unescape(body) ==
    IF \A i \in 1..Len(body) : body[i] # 92 THEN body
    ELSE LET b == MinOf({i \in 1..Len(body) : body[i] = 92})
         IN  IF body[b + 1] = 117
             THEN SubSeq(body, 1, b - 1)
                      \o <<16 * HexVal(body[b + 4]) + HexVal(body[b + 5])>>
                      \o Unescape(SubSeq(body, b + 6, Len(body)))
             ELSE SubSeq(body, 1, b - 1) \o <<UnescapeByte(body[b + 1])>>
                      \o Unescape(SubSeq(body, b + 2, Len(body)))

\* The string a JSON string literal denotes.
JsonString(text) == Unescape(SubSeq(text, 2, Len(text) - 1))

IsJsonString(text) == Len(text) >= 2 /\ text[1] = 34 /\ text[Len(text)] = 34

\* Whether `pat` occurs in `text`.
Contains(text, pat) ==
    \E i \in 1..(Len(text) - Len(pat) + 1) :
        text[i] = pat[1] /\ SubSeq(text, i, i + Len(pat) - 1) = pat

\* The elements of the finite set S of integers, in increasing order.
SortedSeq(S) ==
    Seq1([k \in 1..Cardinality(S) |->
        CHOOSE x \in S : Cardinality({y \in S : y <= x}) = k])

\* The keys of the JSON object `text`, in the order they are written: a key
\* opens right after the brace or after a comma of the object itself.
KeysOf(text) ==
    LET D      == JsonDepths(text)
        starts == SortedSeq({i \in 2..Len(text) :
                      D[i] = 1 /\ text[i] = 34 /\ (text[i - 1] = 123 \/ text[i - 1] = 44)})
    IN  Seq1([k \in 1..Len(starts) |->
            LET from == starts[k] + 1
                to   == MinOf({e \in from..Len(text) : text[e] = 34})
            IN  SubSeq(text, from, to - 1)])

\* The texts of the elements of the JSON array `text`, in order.
Elements(text) ==
    LET D    == JsonDepths(text)
        cuts == SortedSeq({1, Len(text)} \cup {i \in 1..Len(text) : D[i] = 1 /\ text[i] = 44})
    IN  IF Len(text) <= 2 THEN <<>>
        ELSE Seq1([k \in 1..(Len(cuts) - 1) |-> SubSeq(text, cuts[k] + 1, cuts[k + 1] - 1)])

-----------------------------------------------------------------------------
(* The field names serde writes (after #[serde(rename = ...)]) *)

K_name == Str(<<"n","a","m","e">>)

K_args == Str(<<"a","r","g","s">>)

K_chainId == Str(<<"c","h","a","i","n","I","d">>)

K_sender == Str(<<"s","e","n","d","e","r">>)

K_gasLimit == Str(<<"g","a","s","L","i","m","i","t">>)

K_gasPrice == Str(<<"g","a","s","P","r","i","c","e">>)

K_ttl == Str(<<"t","t","l">>)

K_creationTime == Str(<<"c","r","e","a","t","i","o","n","T","i","m","e">>)

K_scheme == Str(<<"s","c","h","e","m","e">>)

K_pubKey == Str(<<"p","u","b","K","e","y">>)

K_clist == Str(<<"c","l","i","s","t">>)

K_proof == Str(<<"p","r","o","o","f">>)

K_exec == Str(<<"e","x","e","c">>)

K_code == Str(<<"c","o","d","e">>)

K_data == Str(<<"d","a","t","a">>)

K_nonce == Str(<<"n","o","n","c","e">>)

K_meta == Str(<<"m","e","t","a">>)

K_signers == Str(<<"s","i","g","n","e","r","s">>)

K_verifiers == Str(<<"v","e","r","i","f","i","e","r","s">>)

K_networkId == Str(<<"n","e","t","w","o","r","k","I","d">>)

K_payload == Str(<<"p","a","y","l","o","a","d">>)

-----------------------------------------------------------------------------
(* pact/cap.rs, pact/meta.rs *)

Cap(name, args) == [name |-> name, args |-> args]

CapNew(name) == Cap(name, <<>>)

CapWithArgs(name, args) == Cap(name, args)

\* f64 values that are no number: serde_json has no Number for them.
Infinity == F64(<<>>, 0)

NaN == F64(<<>>, 1)

IsFinite(f) == f.digits # <<>>

\* json!(x) and Value::from(x) for an f64: Number::from_f64 is None for a
\* value that is not finite, and the Value is then Null.
JsonF64(f) == IF IsFinite(f) THEN JFloat(f) ELSE JNull

\* A Rust value handed to add_arg, by its type: "str", "int", "f64", "value".
Arg(t, v) == [t |-> t, v |-> v]

\* arg.into(): Into<Value> of the argument.
IntoValue(arg) ==
    CASE arg.t = "str" -> JStr(arg.v)
      [] arg.t = "int" -> JInt(arg.v)
      [] arg.t = "f64" -> JsonF64(arg.v)
      [] arg.t = "value" -> arg.v.json

CapAddArg(cap, arg) == [cap EXCEPT !.args = Append(@, arg)]

COIN_TRANSFER == Str(<<"c","o","i","n",".","T","R","A","N","S","F","E","R">>)

CapTransfer(from, to, amount) ==
    CapWithArgs(COIN_TRANSFER, <<JStr(from), JStr(to), JsonF64(amount)>>)

SerCap(c) ==
    SerObject(<<SerField(K_name, SerString(c.name)),
                SerField(K_args,
                         SerArray(Seq1([i \in 1..Len(c.args) |-> SerValue(c.args[i])])))>>)

SerCaps(cs) == SerArray(Seq1([i \in 1..Len(cs) |-> SerCap(cs[i])]))

DefaultGasLimit == 1500

DefaultGasPrice == F64(<<1>>, -8)

DefaultTtl == 3600

\* Meta::new, with `now` the seconds the system clock reads at the call.
MetaNew(chain_id, sender, now) ==
    [chain_id |-> chain_id, sender |-> sender, gas_limit |-> DefaultGasLimit,
     gas_price |-> DefaultGasPrice, ttl |-> DefaultTtl, creation_time |-> now]

MetaWithParams(chain_id, sender, gas_limit, gas_price, ttl, creation_time) ==
    [chain_id |-> chain_id, sender |-> sender, gas_limit |-> gas_limit,
     gas_price |-> gas_price, ttl |-> ttl, creation_time |-> creation_time]

\* (mutant) the ttl is reset along with the limit.
with_gas_limit_and_ttl(meta, gas_limit) ==
    [meta EXCEPT !.gas_limit = gas_limit, !.ttl = DefaultTtl]

with_gas_limit(meta, gas_limit) == [meta EXCEPT !.gas_limit = gas_limit]

\* (mutant) the creation time is cleared along with the price.
with_gas_price_restamped(meta, gas_price) ==
    [meta EXCEPT !.gas_price = gas_price, !.creation_time = 0]

with_gas_price(meta, gas_price) == [meta EXCEPT !.gas_price = gas_price]

with_ttl(meta, ttl) == [meta EXCEPT !.ttl = ttl]

\* (mutant) the fields of Meta are written in alphabetical order.
SerMetaSorted(m) ==
    SerObject(<<SerField(K_chainId, SerString(m.chain_id)),
                SerField(K_creationTime, Decimal(m.creation_time)),
                SerField(K_gasLimit, Decimal(m.gas_limit)),
                SerField(K_gasPrice, FormatF64(m.gas_price)),
                SerField(K_sender, SerString(m.sender)),
                SerField(K_ttl, Decimal(m.ttl))>>)

SerMeta(m) ==
    SerObject(<<SerField(K_chainId, SerString(m.chain_id)),
                SerField(K_sender, SerString(m.sender)),
                SerField(K_gasLimit, Decimal(m.gas_limit)),
                SerField(K_gasPrice, FormatF64(m.gas_price)),
                SerField(K_ttl, Decimal(m.ttl)),
                SerField(K_creationTime,
                         Decimal(m.creation_time))>>)

-----------------------------------------------------------------------------
(* pact/command.rs *)

ED25519 == Str(<<"E","D","2","5","5","1","9">>)

new_ed25519(pub_key, caps) == [scheme |-> ED25519, pub_key |-> pub_key, clist |-> caps]

new_verifier(name, proof, caps) == [name |-> name, proof |-> proof, clist |-> caps]

\* #[derive(Default)] on ExecCommand: String::default() and Value::default().
ExecCommandDefault == [code |-> <<>>, data |-> JNull]

\* ExecCommand::new
ExecCommandNew(code) == [code |-> code, data |-> JObj(<<>>)]

ExecPayloadDefault == [exec |-> ExecCommandDefault]

RandLen == 32           \* bytes drawn by generate_random_nonce

NonceLen == 24          \* bytes of the draw that are encoded

\* (mutant) the whole draw is encoded.
generate_random_nonce_whole(random_bytes) == base64url_encode(random_bytes)

generate_random_nonce(random_bytes) == base64url_encode(SubSeq(random_bytes, 1, NonceLen))

\* CommandPayload::new, with `random_bytes` the draw its nonce is made from.
CommandPayloadNew(meta, random_bytes) ==
    [nonce |-> generate_random_nonce(random_bytes), meta |-> meta, signers |-> <<>>,
     verifiers |-> <<>>, network_id |-> None, payload |-> ExecPayloadDefault]

\* (mutant) the nonce CommandPayload::new drew is kept.
with_nonce_kept(p, nonce) == p

with_nonce(p, nonce) == [p EXCEPT !.nonce = nonce]

with_network_id(p, network_id) == [p EXCEPT !.network_id = Some(network_id)]

with_code(p, code) == [p EXCEPT !.payload.exec.code = code]

with_signers(p, ss) == [p EXCEPT !.signers = ss]

with_verifiers(p, vs) == [p EXCEPT !.verifiers = vs]

with_env_data(p, data) == [p EXCEPT !.payload.exec.data = data]

SerSigner(s) ==
    SerObject(<<SerField(K_scheme, SerString(s.scheme)),
                SerField(K_pubKey, SerString(s.pub_key)),
                SerField(K_clist, SerCaps(s.clist))>>)

SerVerifier(v) ==
    SerObject(<<SerField(K_name, SerString(v.name)),
                SerField(K_proof, SerString(v.proof)),
                SerField(K_clist, SerCaps(v.clist))>>)

SerExecPayload(p) ==
    SerObject(<<SerField(K_exec,
        SerObject(<<SerField(K_code, SerString(p.exec.code)),
                    SerField(K_data, SerValue(p.exec.data))>>))>>)

\* serde_json::to_string(&command_payload): the derived Serialize writes the
\* fields in declaration order under their serde names.
SerCommandPayload(p) ==
    SerObject(<<SerField(K_nonce, SerString(p.nonce)),
                SerField(K_meta, SerMeta(p.meta)),
                SerField(K_signers,
                         SerArray(Seq1([i \in 1..Len(p.signers) |-> SerSigner(p.signers[i])]))),
                SerField(K_verifiers,
                         SerArray(Seq1([i \in 1..Len(p.verifiers) |-> SerVerifier(p.verifiers[i])]))),
                SerField(K_networkId, SerOptString(p.network_id)),
                SerField(K_payload, SerExecPayload(p.payload))>>)

\* (mutant) signers holding the same public key are merged into the first.
SignersDataMerged(ss) ==
    LET keep == {i \in 1..Len(ss) :
                    \A j \in 1..(i - 1) : ss[j].kp.public_key # ss[i].kp.public_key}
        idx  == SortedSeq(keep)
    IN  Seq1([k \in 1..Len(idx) |-> new_ed25519(ss[idx[k]].kp.public_key, ss[idx[k]].caps)])

\* Lines 194-197: one CommandSigner per (keypair, caps), in input order.
SignersData(ss) == Seq1([i \in 1..Len(ss) |-> new_ed25519(ss[i].kp.public_key, ss[i].caps)])

\* Lines 201-205: nonce.map(ToString::to_string).unwrap_or_else(generate_random_nonce);
\* `random_bytes` is the draw the closure would make.
ResolveNonce(nonce, random_bytes) ==
    IF nonce.some THEN nonce.v ELSE generate_random_nonce(random_bytes)

\* Lines 211-215
ApplyNetworkId(p, network_id) ==
    IF network_id.some THEN with_network_id(p, network_id.v) ELSE p

\* Lines 217-221
ApplyEnvData(p, env_data) ==
    IF env_data.some THEN with_env_data(p, env_data.v) ELSE p

\* Lines 200-221: the payload that is serialized.  rng[1] is the draw made by
\* CommandPayload::new, rng[2] the one made for an absent nonce.
BuildPayload(ss, verifiers, nonce, pact_code, env_data, meta, network_id, rng) ==
    LET p0 == CommandPayloadNew(meta, rng[1])
        p1 == with_nonce(p0, ResolveNonce(nonce, rng[2]))
        p2 == with_code(p1, pact_code)
        p3 == with_signers(p2, SignersData(ss))
        p4 == with_verifiers(p3, verifiers)
    IN  ApplyEnvData(ApplyNetworkId(p4, network_id), env_data)

\* Number of draws a call takes from the random source.
DrawsUsed(nonce) == IF nonce.some THEN 1 ELSE 2

\* (mutant) the encoded hash string is signed instead of the digest bytes.
HashBytesEncoded(cmd_hash) == Ok(cmd_hash)

\* Line 228: the bytes every signer signs.
HashBytes(cmd_hash) == base64url_decode(cmd_hash)

\* (mutant) the signers are gone through in reverse order.
SignResultsReversed(ss, hash_bytes) ==
    Seq1([i \in 1..Len(ss) |-> sign(ss[Len(ss) + 1 - i].kp, hash_bytes)])

\* Lines 229-236: kp.sign(&hash_bytes) for every signer in order.
SignResults(ss, hash_bytes) == Seq1([i \in 1..Len(ss) |-> sign(ss[i].kp, hash_bytes)])

\* The first signer whose sign call panics (0 when none does); the iteration
\* goes no further.
FirstPanic(results) ==
    IF \E i \in 1..Len(results) : Panicked(results[i])
    THEN CHOOSE i \in 1..Len(results) :
            Panicked(results[i]) /\ \A j \in 1..(i - 1) : ~Panicked(results[j])
    ELSE 0

SignaturePayload(sig) == [sig |-> sig]

\* filter_map(.. .ok()): the Ok results, in order, each wrapped; Err results dropped.
RECURSIVE CollectSigs(_)
CollectSigs(results) ==
    IF results = <<>> THEN <<>>
    ELSE IF Head(results).ok THEN <<SignaturePayload(Head(results).val)>> \o CollectSigs(Tail(results))
    ELSE CollectSigs(Tail(results))

Cmd(sigs, cmd, cmd_hash) == [sigs |-> sigs, cmd |-> cmd, hash |-> cmd_hash]

\* Cmd::prepare_exec.  The record returned holds the function's result (`out`)
\* and what it did on the way: the sign calls it made and the draws it took.
prepare_exec(ss, verifiers, nonce, pact_code, env_data, meta, network_id, rng) ==
    LET payload    == BuildPayload(ss, verifiers, nonce, pact_code, env_data, meta, network_id, rng)
        cmd        == SerCommandPayload(payload)
        cmd_hash   == hash(cmd)
        hash_bytes == HashBytes(cmd_hash)
        results    == SignResults(ss, hash_bytes.val)
        stop       == FirstPanic(results)
        made       == IF stop = 0 THEN Len(ss) ELSE stop
    IN  IF ~hash_bytes.ok
        THEN [out |-> Err(hash_bytes.err), signed |-> <<>>,
              rng |-> SubSeq(rng, 1, DrawsUsed(nonce))]
        ELSE [out    |-> IF stop # 0 THEN Panic
                         ELSE Ok(Cmd(CollectSigs(results), cmd, cmd_hash)),
              signed |-> Seq1([i \in 1..made |->
                            [signer |-> i, msg |-> hash_bytes.val, out |-> results[i]]]),
              rng    |-> SubSeq(rng, 1, DrawsUsed(nonce))]

-----------------------------------------------------------------------------
(* Bounds and the inputs the operations are run on *)

MaxSigners == 2         \* longest signer slice the caller assembles

\* Outputs of the random source: OsRng for key generation ...
SeedOf(k) == Seq1([i \in 1..KeyLen |-> (16 * k + 3 * i) % 256])

Seeds == {SeedOf(1), SeedOf(2)}

\* ... and thread_rng for nonces: a base draw, one differing from it in byte
\* NonceLen (the last encoded byte), one differing only in byte NonceLen + 1.
Draw0 == Seq1([i \in 1..RandLen |-> (7 * i) % 256])

DrawHead == [Draw0 EXCEPT ![NonceLen] = 255]

DrawTail == [Draw0 EXCEPT ![NonceLen + 1] = 255]

Draws == {Draw0, DrawHead, DrawTail}

ToUpper(s) == Seq1([i \in 1..Len(s) |-> IF s[i] >= 97 /\ s[i] <= 122 THEN s[i] - 32 ELSE s[i]])

UpperSecret == ToUpper(bin_to_hex(SeedOf(3)))       \* valid, upper-case hex

OddSecret == Str(<<"a", "b", "c">>)                 \* odd length

BadHexSecret == Str(<<"z", "z">>)                   \* not hex

ShortSecret == Str(<<"0", "0", "f", "f">>)          \* valid hex, 2 bytes

SecretInputs == {UpperSecret, OddSecret, BadHexSecret, ShortSecret}

\* Field values a caller writes through the public fields of PactKeypair.
\* Neither secret belongs to the public key.
PublicKeyChoices == {bin_to_hex(VerifyingKeyOf(SeedOf(1)))}

SecretKeyChoices == {BadHexSecret, ShortSecret}

COIN_GAS == Str(<<"c","o","i","n",".","G","A","S">>)

TEST_TEST == Str(<<"t","e","s","t",".","T","E","S","T">>)

Alice == Str(<<"k",":","a">>)

Bob == Str(<<"B","o","b">>)

\* The capability list given to the i-th signer added (distinct per position).
CapsFor(i) ==
    IF i % 3 = 1 THEN <<CapNew(COIN_GAS), CapTransfer(Alice, Bob, F64(<<1>>, 1))>>
    ELSE IF i % 3 = 2 THEN <<CapNew(TEST_TEST)>>
    ELSE <<>>

Nonces == {None, Some(<<>>), Some(Str(<<"n", "\"", "\\", "1">>))}

NetworkIds == {None, Some(Str(<<"t","e","s","t","n","e","t","0","4">>))}

EnvDatas == {NoValue, Some(JObj(<< <<Str(<<"k">>), JInt(1)>> >>))}

VerifierLists == {<<>>}

\* Verifiers handed to prepare_exec: none, one, two, and the two swapped.
Verifier1 ==
    new_verifier(Str(<<"v", "1">>), Str(<<"p", "1">>), <<CapNew(COIN_GAS)>>)

Verifier2 ==
    new_verifier(Str(<<"v", "2">>), Str(<<"p", "\"", "2">>),
                 <<CapNew(TEST_TEST), CapTransfer(Bob, Alice, F64(<<2, 5>>, -1))>>)

VerifierInputs == {<<>>, <<Verifier1>>, <<Verifier1, Verifier2>>, <<Verifier2, Verifier1>>}

PactCode == Str(<<"(", "+", " ", "1", " ", "2", ")">>)

Now == 1700000000       \* what the clock reads when the Meta is made

TheMeta == MetaNew(Str(<<"0">>), Alice, Now)

Messages == {<<>>, <<1, 2, 3>>}

-----------------------------------------------------------------------------
(* The caller: assembles a signer slice, then runs one operation *)

NoCall == [op |-> "none"]

NoRet == Err("none")

NoPrev == [out |-> NoRet, rng |-> <<>>]

Init ==
    /\ signers = <<>>
    /\ pc = "build"
    /\ call = NoCall
    /\ ret = NoRet
    /\ prev = NoPrev
    /\ signLog = <<>>
    /\ rngLog = <<>>

AddSigner(kp) == Append(signers, [kp |-> kp, caps |-> CapsFor(Len(signers) + 1)])

\* let kp = PactKeypair::generate(); the caller adds it to the slice.
Generate ==
    /\ pc = "build"
    /\ Len(signers) < MaxSigners
    /\ \E rand_bytes \in Seeds :
          signers' = AddSigner(generate(rand_bytes))
    /\ UNCHANGED <<pc, call, ret, prev, signLog, rngLog>>

\* PactKeypair::from_secret_key(seed): Ok adds the keypair, Err is what the
\* caller is left with.
FromSecretKey ==
    /\ pc = "build"
    /\ Len(signers) < MaxSigners
    /\ \E seed \in SecretInputs :
          LET r == from_secret_key(seed)
          IN  IF r.ok
              THEN /\ signers' = AddSigner(r.val)
                   /\ UNCHANGED <<pc, call, ret>>
              ELSE /\ pc' = "observed"
                   /\ call' = [op |-> "from_secret_key", seed |-> seed]
                   /\ ret' = r
                   /\ UNCHANGED signers
    /\ UNCHANGED <<prev, signLog, rngLog>>

\* PactKeypair { public_key, secret_key }, or an assignment to a field of a
\* keypair the caller owns: both fields are pub, so the caller can come to
\* hold a keypair made of any two strings.
Literal ==
    /\ pc = "build"
    /\ Len(signers) < MaxSigners
    /\ \E pk \in PublicKeyChoices, sk \in SecretKeyChoices :
          signers' = AddSigner(PactKeypair(pk, sk))
    /\ UNCHANGED <<pc, call, ret, prev, signLog, rngLog>>

\* kp.sign(msg) on one of the keypairs held.
Sign ==
    /\ pc = "build"
    /\ \E i \in 1..Len(signers), msg \in Messages :
          /\ call' = [op |-> "sign", kp |-> signers[i].kp, msg |-> msg]
          /\ ret' = sign(signers[i].kp, msg)
    /\ pc' = "observed"
    /\ UNCHANGED <<signers, prev, signLog, rngLog>>

\* Signature strings handed to verify: the keypair's own signature of the
\* message when it can sign, a string that is not hex, and hex of 2 bytes.
SignatureInputs(kp, msg) ==
    {BadHexSecret, ShortSecret}
        \cup (IF sign(kp, msg).ok THEN {sign(kp, msg).val} ELSE {})

\* kp.verify(msg, signature) on one of the keypairs held.
Verify ==
    /\ pc = "build"
    /\ \E i \in 1..Len(signers), msg \in Messages, signed \in Messages :
          \E signature \in SignatureInputs(signers[i].kp, signed) :
              /\ call' = [op |-> "verify", kp |-> signers[i].kp, msg |-> msg,
                          signature |-> signature]
              /\ ret' = verify(signers[i].kp, msg, signature)
    /\ pc' = "observed"
    /\ UNCHANGED <<signers, prev, signLog, rngLog>>

\* Public key strings handed to verify_signature: a key, a string that is not
\* hex, hex of 2 bytes, and hex of 32 bytes that encode no curve point.
PublicKeyInputs ==
    {bin_to_hex(VerifyingKeyOf(SeedOf(1))), BadHexSecret, ShortSecret,
     bin_to_hex([VerifyingKeyOf(SeedOf(1)) EXCEPT ![KeyLen] = 255])}

\* verify_signature(msg, signature, public_key), which needs no keypair.
VerifySignature ==
    /\ pc = "build"
    /\ signers = <<>>
    /\ \E msg \in Messages, signed \in Messages, public_key \in PublicKeyInputs :
          \E signature \in SignatureInputs(generate(SeedOf(1)), signed) :
              /\ call' = [op |-> "verify_signature", msg |-> msg,
                          signature |-> signature, public_key |-> public_key]
              /\ ret' = verify_signature(msg, signature, public_key)
    /\ pc' = "observed"
    /\ UNCHANGED <<signers, prev, signLog, rngLog>>

\* The draws the random source may hand to one call: one per draw the call makes.
RngStreams(nonce) ==
    IF nonce.some THEN {<<d1>> : d1 \in Draws}
    ELSE {<<d1, d2>> : d1 \in Draws, d2 \in Draws}

\* What a prepare_exec call leaves behind for the caller to look at.
Returned(r) ==
    /\ ret' = r.out
    /\ signLog' = r.signed
    /\ rngLog' = r.rng

\* Cmd::prepare_exec(&signers, verifiers, nonce, code, env_data, meta, network_id)
PrepareExec ==
    /\ pc = "build"
    /\ \E verifiers \in VerifierLists, nonce \in Nonces, env_data \in EnvDatas,
          network_id \in NetworkIds :
          \E rng \in RngStreams(nonce) :
              /\ call' = [op |-> "prepare_exec", signers |-> signers,
                          verifiers |-> verifiers, nonce |-> nonce,
                          pact_code |-> PactCode, env_data |-> env_data,
                          meta |-> TheMeta, network_id |-> network_id]
              /\ Returned(prepare_exec(signers, verifiers, nonce, PactCode, env_data,
                                       TheMeta, network_id, rng))
    /\ pc' = "called"
    /\ UNCHANGED <<signers, prev>>

\* The same call made a second time: equal arguments (the slice, the Meta and
\* the rest are cloned or borrowed, never consumed), fresh random draws.
PrepareExecAgain ==
    /\ pc = "called"
    /\ \E rng \in RngStreams(call.nonce) :
          Returned(prepare_exec(call.signers, call.verifiers, call.nonce, call.pact_code,
                                call.env_data, call.meta, call.network_id, rng))
    /\ prev' = [out |-> ret, rng |-> rngLog]
    /\ pc' = "again"
    /\ UNCHANGED <<signers, call>>

Next ==
    \/ Generate
    \/ FromSecretKey
    \/ Literal
    \/ Sign
    \/ Verify
    \/ VerifySignature
    \/ PrepareExec

Spec == Init /\ [][Next]_vars

\* Two calls with equal arguments: the slices are the first n of a fixed list
\* of generated keypairs, every other argument ranges as in Spec.
ValidSigners ==
    [i \in 1..MaxSigners |-> [kp |-> generate(SeedOf(1 + (i % 2))), caps |-> CapsFor(i)]]

InitTwice ==
    /\ signers \in {SubSeq(ValidSigners, 1, n) : n \in 0..MaxSigners}
    /\ pc = "build"
    /\ call = NoCall
    /\ ret = NoRet
    /\ prev = NoPrev
    /\ signLog = <<>>
    /\ rngLog = <<>>

NextTwice ==
    \/ PrepareExec
    \/ PrepareExecAgain

SpecTwice == InitTwice /\ [][NextTwice]_vars

\* One stream of draws for a call: as many draws as the call makes.
FirstStream(nonce) == IF nonce.some THEN <<Draw0>> ELSE <<Draw0, DrawHead>>

\* Cmd::prepare_exec with verifiers, on the slice assembled so far.
PrepareExecVerifiers ==
    /\ pc = "build"
    /\ \E verifiers \in VerifierInputs, nonce \in Nonces, env_data \in EnvDatas,
          network_id \in NetworkIds :
          /\ call' = [op |-> "prepare_exec", signers |-> signers,
                      verifiers |-> verifiers, nonce |-> nonce,
                      pact_code |-> PactCode, env_data |-> env_data,
                      meta |-> TheMeta, network_id |-> network_id]
          /\ Returned(prepare_exec(signers, verifiers, nonce, PactCode, env_data,
                                   TheMeta, network_id, FirstStream(nonce)))
    /\ pc' = "called"
    /\ UNCHANGED <<signers, prev>>

\* The wire format: slices of generated keypairs (a keypair may occur twice),
\* then one call with signers and verifiers.
NextWire ==
    \/ Generate
    \/ PrepareExecVerifiers

SpecWire == Init /\ [][NextWire]_vars

-----------------------------------------------------------------------------
(* The crypto module alone: one call of one operation on one input *)

MaxBytes == 3           \* longest byte sequence encoded or hashed

MaxText == 4            \* longest string handed to a decoder

\* Byte values: zero, a low nibble only, both nibbles different, all bits set.
ByteInputs == {0, 1, 171, 255}

RECURSIVE SeqsUpTo(_, _)
SeqsUpTo(S, n) ==
    IF n = 0 THEN {<<>>}
    ELSE LET shorter == SeqsUpTo(S, n - 1)
         IN  shorter \cup {Append(q, x) : q \in {r \in shorter : Len(r) = n - 1}, x \in S}

ByteSeqs == SeqsUpTo(ByteInputs, MaxBytes)

\* Characters: a lower-case and an upper-case hex digit, a letter that is
\* base64 but not hex, the padding character, and the URL-safe 62nd symbol.
CharInputs == {Ord("a"), Ord("F"), Ord("g"), Ord("="), Ord("-")}

TextInputs == SeqsUpTo(CharInputs, MaxText)

LowerSecret == bin_to_hex(SeedOf(3))                \* UpperSecret in lower case

LongSecret == bin_to_hex(SeedOf(1) \o <<7>>)        \* valid hex, 33 bytes

NonHexSecret == [bin_to_hex(SeedOf(1)) EXCEPT ![64] = Ord("g")]    \* 64 characters, one not hex

SeedStrings == SecretInputs \cup {LowerSecret, LongSecret, NonHexSecret, <<>>}

\* Keypairs a caller can hold: generated, restored from either spelling of
\* one seed, and written field by field.
CryptoKeypairs ==
    {generate(rand_bytes) : rand_bytes \in Seeds}
        \cup {from_secret_key(seed).val : seed \in {UpperSecret, LowerSecret}}
        \cup {PactKeypair(pk, sk) : pk \in PublicKeyInputs,
                                    sk \in {bin_to_hex(SeedOf(2)), ShortSecret}}

CryptoMessages == {<<>>, <<1, 2, 3>>, <<1, 2, 4>>}

\* Strings handed to verify that no sign call returned: not hex, odd length,
\* hex of 2 bytes, hex of 65 bytes.
ForgedSignatures ==
    {BadHexSecret, OddSecret, ShortSecret, bin_to_hex(SeedOf(1) \o SeedOf(2) \o <<0>>)}

\* PactKeypair::from_secret_key(seed)
FromSecretKeyCall ==
    /\ pc = "build"
    /\ \E seed \in SeedStrings :
          /\ call' = [op |-> "from_secret_key", seed |-> seed]
          /\ ret' = from_secret_key(seed)
    /\ pc' = "observed"
    /\ UNCHANGED <<signers, prev, signLog, rngLog>>

\* let kp = PactKeypair::generate(); PactKeypair::from_secret_key(kp.secret_key())
Restore ==
    /\ pc = "build"
    /\ \E rand_bytes \in Seeds :
          LET kp == generate(rand_bytes)
          IN  /\ call' = [op |-> "restore", kp |-> kp]
              /\ ret' = from_secret_key(kp.secret_key)
    /\ pc' = "observed"
    /\ UNCHANGED <<signers, prev, signLog, rngLog>>

\* let signature = signer.sign(signed); kp.verify(msg, &signature): the second
\* call is made when the first returned a signature.
SignThenVerify ==
    /\ pc = "build"
    /\ \E signer \in CryptoKeypairs, signed \in CryptoMessages,
          kp \in CryptoKeypairs, msg \in CryptoMessages :
          LET signature == sign(signer, signed)
          IN  IF signature.ok
              THEN /\ call' = [op |-> "sign_verify", signer |-> signer, signed |-> signed,
                               kp |-> kp, msg |-> msg, signature |-> signature.val]
                   /\ ret' = verify(kp, msg, signature.val)
              ELSE /\ call' = [op |-> "sign", kp |-> signer, msg |-> signed]
                   /\ ret' = signature
    /\ pc' = "observed"
    /\ UNCHANGED <<signers, prev, signLog, rngLog>>

\* kp.verify(msg, signature) on a string that is no signature.
VerifyForged ==
    /\ pc = "build"
    /\ \E kp \in CryptoKeypairs, msg \in CryptoMessages, signature \in ForgedSignatures :
          /\ call' = [op |-> "verify", kp |-> kp, msg |-> msg, signature |-> signature]
          /\ ret' = verify(kp, msg, signature)
    /\ pc' = "observed"
    /\ UNCHANGED <<signers, prev, signLog, rngLog>>

\* bin_to_hex(x), base64url_encode(x), and each decoded again.
EncodeDecode ==
    /\ pc = "build"
    /\ \E x \in ByteSeqs :
          /\ call' = [op |-> "encode", x |-> x]
          /\ ret' = Ok([hex   |-> bin_to_hex(x),
                        unhex |-> hex_to_bin(bin_to_hex(x)),
                        b64   |-> base64url_encode(x),
                        unb64 |-> base64url_decode(base64url_encode(x))])
    /\ pc' = "observed"
    /\ UNCHANGED <<signers, prev, signLog, rngLog>>

\* hex_to_bin(s) and base64url_decode(s)
Decode ==
    /\ pc = "build"
    /\ \E s \in TextInputs :
          /\ call' = [op |-> "decode", s |-> s]
          /\ ret' = Ok([hex |-> hex_to_bin(s), b64 |-> base64url_decode(s)])
    /\ pc' = "observed"
    /\ UNCHANGED <<signers, prev, signLog, rngLog>>

\* Data that is hashed: short byte strings and a serialized command body.
HashInputs ==
    ByteSeqs \cup {SerCommandPayload(BuildPayload(<<>>, <<>>, Some(<<>>), PactCode, NoValue,
                                                  TheMeta, None, <<Draw0>>))}

\* hash(data), then the decoding prepare_exec applies to it (line 228).
Hash ==
    /\ pc = "build"
    /\ \E data \in HashInputs :
          /\ call' = [op |-> "hash", data |-> data]
          /\ ret' = Ok([hash |-> hash(data), hash_bytes |-> HashBytes(hash(data))])
    /\ pc' = "observed"
    /\ UNCHANGED <<signers, prev, signLog, rngLog>>

NextCrypto ==
    \/ FromSecretKeyCall
    \/ Restore
    \/ SignThenVerify
    \/ VerifyForged
    \/ EncodeDecode
    \/ Decode
    \/ Hash

SpecCrypto == Init /\ [][NextCrypto]_vars

-----------------------------------------------------------------------------
(* A Meta through its life: made at some clock reading, changed by the      *)
(* builder methods, cloned into prepare_exec calls while the clock runs on. *)
(* Here `prev` is the Meta the caller holds, `ret` what the last operation  *)
(* returned, and `call` the clock and the history of the Meta.              *)

MaxTicks == 2           \* seconds the clock advances after the Meta is made

MaxSetters == 2         \* builder calls applied to one Meta

MaxCalls == 2           \* prepare_exec calls made with clones of one Meta

ChainIds == {Str(<<"0">>), Str(<<"1", "9">>)}

\* Arguments of Meta::with_params: limit, price, ttl, creation time.
MetaParams == {<<0, F64(<<1>>, -6), 1, 0>>, <<2500, F64(<<0>>, 0), 28800, Now - 5>>}

GasLimits == {0, 1000}

GasPrices == {F64(<<1>>, -6)}

Ttls == {600}

\* How a Meta was made, and the Meta.  Meta::new reads the clock (a clock
\* set before 1970 makes its unwrap panic; the clock here is later).
MetaMade ==
    {[how |-> "new", chain_id |-> c, sender |-> Alice, clock |-> Now,
      meta |-> MetaNew(c, Alice, Now)] : c \in ChainIds}
        \cup {[how |-> "with_params", chain_id |-> Str(<<"0">>), sender |-> Bob, clock |-> Now,
               meta |-> MetaWithParams(Str(<<"0">>), Bob, q[1], q[2], q[3], q[4])] :
                  q \in MetaParams}

InitMeta ==
    /\ signers = <<[kp |-> generate(SeedOf(1)), caps |-> CapsFor(1)]>>
    /\ pc = "build"
    /\ \E made \in MetaMade :
          /\ call = [op |-> made.how, clock |-> made.clock, made |-> made,
                     setters |-> <<>>, calls |-> 0]
          /\ ret = made.meta
          /\ prev = made.meta
    /\ signLog = <<>>
    /\ rngLog = <<>>

\* A second passes.
Tick ==
    /\ call.clock < call.made.clock + MaxTicks
    /\ call' = [call EXCEPT !.clock = @ + 1]
    /\ UNCHANGED <<signers, pc, ret, prev, signLog, rngLog>>

\* meta = meta.with_...(value): `field` and `value` are entered in the history.
Setter(op, field, value, meta) ==
    /\ pc = "build"
    /\ Len(call.setters) < MaxSetters
    /\ call' = [call EXCEPT !.op = op,
                            !.setters = Append(@, [field |-> field, value |-> value])]
    /\ ret' = meta
    /\ prev' = meta
    /\ UNCHANGED <<signers, pc, signLog, rngLog>>

WithGasLimit ==
    \E gas_limit \in GasLimits :
        Setter("with_gas_limit", "gas_limit", gas_limit, with_gas_limit(prev, gas_limit))

WithGasPrice ==
    \E gas_price \in GasPrices :
        Setter("with_gas_price", "gas_price", gas_price, with_gas_price(prev, gas_price))

WithTtl ==
    \E ttl \in Ttls :
        Setter("with_ttl", "ttl", ttl, with_ttl(prev, ttl))

\* Cmd::prepare_exec(.., meta.clone(), ..): the function is given a clone and
\* reads no clock; the caller keeps its Meta.
PrepareExecMeta ==
    /\ call.calls < MaxCalls
    /\ call' = [call EXCEPT !.op = "prepare_exec", !.calls = @ + 1]
    /\ Returned(prepare_exec(signers, <<>>, Some(<<>>), PactCode, NoValue, prev, None,
                             <<Draw0>>))
    /\ pc' = "called"
    /\ UNCHANGED <<signers, prev>>

NextMeta ==
    \/ Tick
    \/ WithGasLimit
    \/ WithGasPrice
    \/ WithTtl
    \/ PrepareExecMeta

SpecMeta == InitMeta /\ [][NextMeta]_vars

-----------------------------------------------------------------------------
(* A capability made by one of the three constructors and extended by       *)
(* add_arg.  `call` holds the constructor, its arguments and the arguments  *)
(* added since; `ret` is the Cap, `prev` the Cap before the last add_arg.   *)

MaxArgs == 2            \* add_arg calls on one capability

CapNames == {COIN_GAS, Str(<<>>)}

Amounts == {F64(<<1>>, 1), F64(<<0>>, 0), Infinity, NaN}

\* The argument lists and the arguments offered, numbered.
ArgLists ==
    <<<<>>,
      <<JStr(Alice), JStr(Bob), JFloat(F64(<<1>>, 1))>>,
      <<JInt(2), JInt(1), JInt(2)>>>>

AddedArgs ==
    <<Arg("str", Alice), Arg("int", 42), Arg("f64", F64(<<1, 5>>, -1)), Arg("f64", NaN),
      Arg("value", [json |-> JObj(<<<<Str(<<"k">>), JStr(Str(<<"v">>))>>>>)])>>

InitCap ==
    /\ signers = <<>>
    /\ pc = "build"
    /\ call = [op |-> "none"]
    /\ ret = NoRet
    /\ prev = NoPrev
    /\ signLog = <<>>
    /\ rngLog = <<>>

\* Cap::new(name)
CapNewCall ==
    /\ pc = "build"
    /\ pc' = "called"
    /\ \E name \in CapNames :
          /\ call' = [op |-> "new", name |-> name, added |-> <<>>]
          /\ ret' = CapNew(name)
    /\ UNCHANGED <<signers, prev, signLog, rngLog>>

\* Cap::with_args(name, args)
CapWithArgsCall ==
    /\ pc = "build"
    /\ pc' = "called"
    /\ \E name \in CapNames, n \in 1..Len(ArgLists) :
          /\ call' = [op |-> "with_args", name |-> name, args |-> ArgLists[n],
                      added |-> <<>>]
          /\ ret' = CapWithArgs(name, ArgLists[n])
    /\ UNCHANGED <<signers, prev, signLog, rngLog>>

\* Cap::transfer(from, to, amount)
CapTransferCall ==
    /\ pc = "build"
    /\ pc' = "called"
    /\ \E from \in {Alice}, to \in {Alice, Bob}, amount \in Amounts :
          /\ call' = [op |-> "transfer", from |-> from, to |-> to, amount |-> amount,
                      added |-> <<>>]
          /\ ret' = CapTransfer(from, to, amount)
    /\ UNCHANGED <<signers, prev, signLog, rngLog>>

\* cap = cap.add_arg(arg)
AddArg ==
    /\ pc = "called"
    /\ Len(call.added) < MaxArgs
    /\ \E n \in 1..Len(AddedArgs) :
          /\ call' = [call EXCEPT !.added = Append(@, AddedArgs[n])]
          /\ ret' = CapAddArg(ret, IntoValue(AddedArgs[n]))
    /\ prev' = ret
    /\ UNCHANGED <<signers, pc, signLog, rngLog>>

NextCap ==
    \/ CapNewCall
    \/ CapWithArgsCall
    \/ CapTransferCall
    \/ AddArg

SpecCap == InitCap /\ [][NextCap]_vars

-----------------------------------------------------------------------------
(* fetch/api_config.rs *)

DefaultTimeout == 30

ApiConfig(host, timeout, api_key) == [host |-> host, timeout |-> timeout, api_key |-> api_key]

\* format!("{}/chainweb/0.0/{}/chain/{}/pact", base_url, network_id, chain_id)
ApiConfigNew(base_url, network_id, chain_id) ==
    ApiConfig(base_url \o Str(<<"/", "c", "h", "a", "i", "n", "w", "e", "b", "/", "0", ".", "0", "/">>) \o network_id
                  \o Str(<<"/", "c", "h", "a", "i", "n", "/">>) \o chain_id \o Str(<<"/", "p", "a", "c", "t">>),
              DefaultTimeout, None)

\* (mutant) the timeout falls back to the default when a key is set.
with_api_key_default_timeout(config, api_key) ==
    [config EXCEPT !.api_key = Some(api_key), !.timeout = DefaultTimeout]

with_timeout(config, timeout) == [config EXCEPT !.timeout = timeout]

with_api_key(config, api_key) == [config EXCEPT !.api_key = Some(api_key)]

-----------------------------------------------------------------------------
(* fetch/fetch_error.rs, fetch/api_client.rs *)

\* FetchError::NetworkError(reqwest::Error): `stage` tells where reqwest failed.
NetworkError(stage) == [kind |-> "NetworkError", text |-> <<>>, stage |-> stage]

ApiError(text) == [kind |-> "ApiError", text |-> text, stage |-> "status"]

K_sigs == Str(<<"s", "i", "g", "s">>)

K_sig == Str(<<"s", "i", "g">>)

K_cmd == Str(<<"c", "m", "d">>)

K_hash == Str(<<"h", "a", "s", "h">>)

K_cmds == Str(<<"c", "m", "d", "s">>)

X_API_KEY == Str(<<"X", "-", "A", "P", "I", "-", "K", "e", "y">>)

CONTENT_TYPE == Str(<<"C", "o", "n", "t", "e", "n", "t", "-", "T", "y", "p", "e">>)

APPLICATION_JSON == Str(<<"a", "p", "p", "l", "i", "c", "a", "t", "i", "o", "n", "/", "j", "s", "o", "n">>)

\* ApiClient::new: the reqwest client carries the timeout of the config.
ApiClientNew(config) == [timeout |-> config.timeout, config |-> config]

\* (mutant) the signatures are listed last to first.
create_payload_reversed(cmd) ==
    JObj(<<<<K_cmd, JStr(cmd.cmd)>>,
           <<K_hash, JStr(cmd.hash)>>,
           <<K_sigs, JArr(Seq1([i \in 1..Len(cmd.sigs) |->
                        JObj(<<<<K_sig, JStr(cmd.sigs[Len(cmd.sigs) + 1 - i].sig)>>>>)]))>>>>)

\* json!({"sigs": [{"sig": ..}, ..], "cmd": .., "hash": ..}): a serde_json Map
\* keeps its keys sorted.
create_payload(cmd) ==
    JObj(<<<<K_cmd, JStr(cmd.cmd)>>,
           <<K_hash, JStr(cmd.hash)>>,
           <<K_sigs, JArr(Seq1([i \in 1..Len(cmd.sigs) |->
                        JObj(<<<<K_sig, JStr(cmd.sigs[i].sig)>>>>)]))>>>>)

\* Url::parse, as far as the hosts offered go: an absolute http URL.
UrlParses(url) ==
    /\ Len(url) > 7
    /\ SubSeq(url, 1, 7) = Str(<<"h", "t", "t", "p", ":", "/", "/">>)
    /\ url[8] # 47

\* HeaderValue::try_from: visible bytes and tabs only.
IsHeaderValue(v) == \A i \in 1..Len(v) : (v[i] >= 32 /\ v[i] # 127) \/ v[i] = 9

\* (mutant) redirects count as success.
is_success_or_redirect(status) == status >= 200 /\ status < 400

\* StatusCode::is_success
is_success(status) == status >= 200 /\ status < 300

\* String::from_utf8_lossy on bytes that are ASCII or 255: a byte that can
\* start no UTF-8 sequence becomes U+FFFD (EF BF BD).
Utf8Lossy(bytes) ==
    Flatten(Seq1([i \in 1..Len(bytes) |->
        IF bytes[i] < 128 THEN <<bytes[i]>> ELSE <<239, 191, 189>>]))

\* serde_json::from_slice::<Value> on the documents a server is made to answer
\* here: an empty object or array, null, a string, a natural number.
FromSlice(bytes) ==
    IF bytes = <<123, 125>> THEN Ok(JObj(<<>>))
    ELSE IF bytes = <<91, 93>> THEN Ok(JArr(<<>>))
    ELSE IF bytes = JsonNull THEN Ok(JNull)
    ELSE IF /\ IsJsonString(bytes)
            /\ \A i \in 2..(Len(bytes) - 1) :
                  bytes[i] >= 32 /\ bytes[i] < 128 /\ bytes[i] # 34 /\ bytes[i] # 92
    THEN Ok(JStr(JsonString(bytes)))
    ELSE IF bytes # <<>> /\ bytes = Decimal(Len(bytes) - 1) THEN Ok(JInt(Len(bytes) - 1))
    ELSE Err("syntax")

\* ApiClient::execute_request.  `outcome` is what the network and the server
\* do with the request: whether it is answered, the status, the body bytes and
\* whether the body arrives whole.  Returns the result and the requests sent.
execute_request(client, url, payload, outcome) ==
    LET api_key == client.config.api_key
        request == [url |-> url,
                    body |-> SerValue(payload),
                    headers |-> <<<<CONTENT_TYPE, APPLICATION_JSON>>>>
                                  \o (IF api_key.some THEN <<<<X_API_KEY, api_key.v>>>> ELSE <<>>),
                    timeout |-> client.timeout]
        builds  == UrlParses(url) /\ (api_key.some => IsHeaderValue(api_key.v))
    IN  IF ~builds THEN [out |-> Err(NetworkError("builder")), sent |-> <<>>]
        ELSE IF outcome.transport = "refused"
        THEN [out |-> Err(NetworkError("request")), sent |-> <<request>>]
        ELSE IF is_success(outcome.status)
        THEN IF outcome.transport = "reset"
             THEN [out |-> Err(NetworkError("body")), sent |-> <<request>>]
             ELSE IF FromSlice(outcome.body).ok
             THEN [out |-> Ok(FromSlice(outcome.body).val), sent |-> <<request>>]
             ELSE [out |-> Err(NetworkError("decode")), sent |-> <<request>>]
        ELSE IF outcome.transport = "reset"
        THEN [out |-> Err(NetworkError("body")), sent |-> <<request>>]
        ELSE [out |-> Err(ApiError(Utf8Lossy(outcome.body))), sent |-> <<request>>]

local(client, cmd, outcome) ==
    execute_request(client, client.config.host \o Str(<<"/", "a", "p", "i", "/", "v", "1", "/", "l", "o", "c", "a", "l">>),
                    create_payload(cmd), outcome)

send(client, cmd, outcome) ==
    execute_request(client, client.config.host \o Str(<<"/", "a", "p", "i", "/", "v", "1", "/", "s", "e", "n", "d">>),
                    JObj(<<<<K_cmds, JArr(<<create_payload(cmd)>>)>>>>), outcome)

-----------------------------------------------------------------------------
(* A caller of the fetch module: makes a config, adjusts it, builds a client *)
(* and posts one envelope.  `prev` is the ApiConfig held, `call` its history *)
(* and the call made, with the requests that went out; `ret` the result.     *)

MaxConfigSetters == 2   \* with_timeout / with_api_key calls on one config

BaseUrls == {Str(<<"h", "t", "t", "p", ":", "/", "/", "h">>), Str(<<"h">>)}

NetworkNames == {Str(<<"t", "e", "s", "t", "n", "e", "t", "0", "4">>)}

ApiKeys == {Str(<<"k", "1">>), <<107, 10>>}

Timeouts == {5}

\* Envelopes: an empty one, one written by hand with text that needs escaping
\* and signatures out of order, and one prepare_exec returned.
FetchCmds ==
    <<Cmd(<<>>, <<>>, <<>>),
      Cmd(<<SignaturePayload(Str(<<"b">>)), SignaturePayload(Str(<<"a">>)),
            SignaturePayload(Str(<<"a">>))>>,
          Str(<<"{", "\"", "x", "\"", ":", "\"", "\\", "\"", "}">>), Str(<<"h", "-", "_">>)),
      prepare_exec(SubSeq(ValidSigners, 1, 1), <<>>, Some(<<>>), PactCode, NoValue, TheMeta,
                   None, <<Draw0>>).out.val>>

Statuses == {200, 299, 300, 500}

ResponseBodies == {<<>>, Str(<<"\"", "o", "k", "\"">>), Str(<<"n", "o">>) \o <<255>>}

Outcomes ==
    {[transport |-> "refused", status |-> 0, body |-> <<>>]}
        \cup {[transport |-> "reset", status |-> st, body |-> <<>>] : st \in Statuses}
        \cup {[transport |-> "ok", status |-> st, body |-> b] :
                 st \in Statuses, b \in ResponseBodies}

InitFetch ==
    /\ signers = <<>>
    /\ pc = "build"
    /\ \E base_url \in BaseUrls, network_id \in NetworkNames, chain_id \in {Str(<<"1">>)} :
          /\ call = [op |-> "new", base_url |-> base_url, network_id |-> network_id,
                     chain_id |-> chain_id, setters |-> <<>>]
          /\ prev = ApiConfigNew(base_url, network_id, chain_id)
    /\ ret = NoRet
    /\ signLog = <<>>
    /\ rngLog = <<>>

\* config = config.with_timeout(timeout)
WithTimeout ==
    /\ pc = "build"
    /\ Len(call.setters) < MaxConfigSetters
    /\ \E timeout \in Timeouts :
          /\ prev' = with_timeout(prev, timeout)
          /\ call' = [call EXCEPT !.op = "with_timeout",
                          !.setters = Append(@, [field |-> "timeout", value |-> timeout])]
    /\ UNCHANGED <<signers, pc, ret, signLog, rngLog>>

\* config = config.with_api_key(api_key)
WithApiKey ==
    /\ pc = "build"
    /\ Len(call.setters) < MaxConfigSetters
    /\ \E api_key \in ApiKeys :
          /\ prev' = with_api_key(prev, api_key)
          /\ call' = [call EXCEPT !.op = "with_api_key",
                          !.setters = Append(@, [field |-> "api_key", value |-> Some(api_key)])]
    /\ UNCHANGED <<signers, pc, ret, signLog, rngLog>>

\* ApiClient::new(config).local(&cmd).await
Local ==
    /\ pc = "build"
    /\ pc' = "called"
    /\ \E n \in 1..Len(FetchCmds), outcome \in Outcomes :
          LET r == local(ApiClientNew(prev), FetchCmds[n], outcome)
          IN  /\ call' = [op |-> "local", base_url |-> call.base_url,
                          network_id |-> call.network_id, chain_id |-> call.chain_id,
                          setters |-> call.setters, cmd |-> FetchCmds[n],
                          outcome |-> outcome, sent |-> r.sent]
              /\ ret' = r.out
    /\ UNCHANGED <<signers, prev, signLog, rngLog>>

\* ApiClient::new(config).send(&cmd).await
Send ==
    /\ pc = "build"
    /\ pc' = "called"
    /\ \E n \in 1..Len(FetchCmds), outcome \in Outcomes :
          LET r == send(ApiClientNew(prev), FetchCmds[n], outcome)
          IN  /\ call' = [op |-> "send", base_url |-> call.base_url,
                          network_id |-> call.network_id, chain_id |-> call.chain_id,
                          setters |-> call.setters, cmd |-> FetchCmds[n],
                          outcome |-> outcome, sent |-> r.sent]
              /\ ret' = r.out
    /\ UNCHANGED <<signers, prev, signLog, rngLog>>

NextFetch ==
    \/ WithTimeout
    \/ WithApiKey
    \/ Local
    \/ Send

SpecFetch == InitFetch /\ [][NextFetch]_vars

-----------------------------------------------------------------------------
(* Several prepare_exec calls at once, on threads of their own, each taken  *)
(* statement by statement.  `signers` is the memory the calls borrow their  *)
(* keypairs and capability lists from; `call`, `pc`, `ret`, `prev`,         *)
(* `signLog` and `rngLog` hold, per call, its arguments, its position, its  *)
(* local variables, the steps it has taken, its sign calls and its draws.   *)

Calls == 1..MaxCalls

\* Keypairs in memory: two generated ones, one whose secret is not hex (sign
\* returns Err) and one whose secret is two bytes long (sign panics).
StepPool ==
    <<ValidSigners[1],
      ValidSigners[2],
      [kp |-> PactKeypair(bin_to_hex(VerifyingKeyOf(SeedOf(1))), BadHexSecret), caps |-> <<>>],
      [kp |-> PactKeypair(bin_to_hex(VerifyingKeyOf(SeedOf(1))), ShortSecret),
       caps |-> CapsFor(2)]>>

\* The draws thread_rng gives on the thread of call p.
DrawsOn(p) ==
    LET ds == <<Draw0, DrawHead, DrawTail>>
    IN  <<ds[((p - 1) % 3) + 1], ds[(p % 3) + 1]>>

\* The arguments a call is made with; `idx` are the places in memory its
\* signer slice refers to.
StepArgs ==
    <<[idx |-> <<1>>, nonce |-> Some(Str(<<"n">>)), meta |-> TheMeta, network_id |-> None],
      [idx |-> <<1, 2>>, nonce |-> None, meta |-> with_ttl(TheMeta, 600),
       network_id |-> Some(Str(<<"t","e","s","t","n","e","t","0","4">>))],
      [idx |-> <<3, 1>>, nonce |-> None, meta |-> TheMeta, network_id |-> None],
      [idx |-> <<4, 2>>, nonce |-> Some(Str(<<"n">>)), meta |-> TheMeta, network_id |-> None]>>

\* The local variables of a call that has not begun.
NoLocals ==
    [payload |-> <<>>, cmd |-> <<>>, cmd_hash |-> <<>>, hash_bytes |-> NoRet,
     results |-> <<>>, out |-> NoRet]

\* The signer slice of call p: references into memory.
Slice(mem, idx) == Seq1([i \in 1..Len(idx) |-> mem[idx[i]]])

\* (mutant) the serialized text is kept in one buffer that all calls share:
\* the hash step reads what the first call put there.
CmdBufferShared(locals, p) == locals[1].cmd

\* The text the hash step of call p reads: its own local `cmd`.
CmdBuffer(locals, p) == locals[p].cmd

Step(name, i) == [step |-> name, signer |-> i]

InitSteps ==
    /\ signers = StepPool
    /\ call \in {Seq1([p \in Calls |-> StepArgs[f[p]]]) : f \in [Calls -> 1..Len(StepArgs)]}
    /\ pc = Seq1([p \in Calls |-> "start"])
    /\ ret = Seq1([p \in Calls |-> NoLocals])
    /\ prev = Seq1([p \in Calls |-> <<>>])
    /\ signLog = Seq1([p \in Calls |-> <<>>])
    /\ rngLog = Seq1([p \in Calls |-> <<>>])

\* Lines 194-221: signers_data and command_payload.
BuildStep ==
    \E p \in Calls :
        /\ pc[p] = "start"
        /\ ret' = [ret EXCEPT ![p].payload =
                      BuildPayload(Slice(signers, call[p].idx), <<>>, call[p].nonce, PactCode,
                                   NoValue, call[p].meta, call[p].network_id, DrawsOn(p))]
        /\ rngLog' = [rngLog EXCEPT ![p] = SubSeq(DrawsOn(p), 1, DrawsUsed(call[p].nonce))]
        /\ pc' = [pc EXCEPT ![p] = "built"]
        /\ prev' = [prev EXCEPT ![p] = Append(@, Step("build", 0))]
        /\ UNCHANGED <<signers, call, signLog>>

\* Line 224: serde_json::to_string(&command_payload)?
SerializeStep ==
    \E p \in Calls :
        /\ pc[p] = "built"
        /\ ret' = [ret EXCEPT ![p].cmd = SerCommandPayload(ret[p].payload)]
        /\ pc' = [pc EXCEPT ![p] = "serialized"]
        /\ prev' = [prev EXCEPT ![p] = Append(@, Step("serialize", 0))]
        /\ UNCHANGED <<signers, call, signLog, rngLog>>

\* Line 225: hash(cmd.as_bytes())
HashStep ==
    \E p \in Calls :
        /\ pc[p] = "serialized"
        /\ ret' = [ret EXCEPT ![p].cmd_hash = hash(CmdBuffer(ret, p))]
        /\ pc' = [pc EXCEPT ![p] = "hashed"]
        /\ prev' = [prev EXCEPT ![p] = Append(@, Step("hash", 0))]
        /\ UNCHANGED <<signers, call, signLog, rngLog>>

\* Line 228: base64url_decode(&cmd_hash)?
DecodeStep ==
    \E p \in Calls :
        /\ pc[p] = "hashed"
        /\ LET hash_bytes == HashBytes(ret[p].cmd_hash)
           IN  IF hash_bytes.ok
               THEN /\ ret' = [ret EXCEPT ![p].hash_bytes = hash_bytes]
                    /\ pc' = [pc EXCEPT ![p] = "decoded"]
               ELSE /\ ret' = [ret EXCEPT ![p].hash_bytes = hash_bytes,
                                          ![p].out = Err(hash_bytes.err)]
                    /\ pc' = [pc EXCEPT ![p] = "done"]
        /\ prev' = [prev EXCEPT ![p] = Append(@, Step("decode", 0))]
        /\ UNCHANGED <<signers, call, signLog, rngLog>>

\* Lines 229-236: the next kp.sign(&hash_bytes) of the iteration; a panic
\* unwinds the call.
SignStep ==
    \E p \in Calls :
        /\ pc[p] = "decoded"
        /\ Len(ret[p].results) < Len(call[p].idx)
        /\ LET i == Len(ret[p].results) + 1
               r == sign(signers[call[p].idx[i]].kp, ret[p].hash_bytes.val)
           IN  /\ ret' = [ret EXCEPT ![p].results = Append(@, r),
                                     ![p].out = IF Panicked(r) THEN Panic ELSE @]
               /\ pc' = [pc EXCEPT ![p] = IF Panicked(r) THEN "done" ELSE @]
               /\ signLog' = [signLog EXCEPT ![p] =
                                 Append(@, [signer |-> i, msg |-> ret[p].hash_bytes.val,
                                            out |-> r])]
               /\ prev' = [prev EXCEPT ![p] = Append(@, Step("sign", i))]
        /\ UNCHANGED <<signers, call, rngLog>>

\* Lines 238-242: Ok(Self { hash, sigs, cmd })
ReturnStep ==
    \E p \in Calls :
        /\ pc[p] = "decoded"
        /\ Len(ret[p].results) = Len(call[p].idx)
        /\ ret' = [ret EXCEPT ![p].out =
                      Ok(Cmd(CollectSigs(ret[p].results), ret[p].cmd, ret[p].cmd_hash))]
        /\ pc' = [pc EXCEPT ![p] = "done"]
        /\ prev' = [prev EXCEPT ![p] = Append(@, Step("return", 0))]
        /\ UNCHANGED <<signers, call, signLog, rngLog>>

NextSteps ==
    \/ BuildStep
    \/ SerializeStep
    \/ HashStep
    \/ DecodeStep
    \/ SignStep
    \/ ReturnStep

SpecSteps == InitSteps /\ [][NextSteps]_vars

-----------------------------------------------------------------------------
(* Vocabulary of the claims *)

Called == pc \in {"called", "again"}

\* A keypair value that generate or from_secret_key returns on some input.
Constructed(kp) ==
    \/ \E rand_bytes \in Seeds : kp = generate(rand_bytes)
    \/ \E seed \in SecretInputs : from_secret_key(seed).ok /\ from_secret_key(seed).val = kp

N == Len(call.signers)

\* What sign gives for signer i on the digest of the returned envelope.
SignOf(i) == sign(call.signers[i].kp, base64url_decode(ret.val.hash).val)

Body == ret.val.cmd

ExecOf(body) == Member(Member(body, K_payload).text, K_exec).text

-----------------------------------------------------------------------------
\* C1: a prepare_exec call whose N signers all hold keypairs made by generate
\* or from_secret_key returns an envelope with exactly N signatures, and for
\* every i the i-th signature verifies under the i-th signer's public key over
\* the bytes the returned hash decodes to.
C1_SignaturesMatchSigners ==
    (Called /\ \A i \in 1..N : Constructed(call.signers[i].kp)) =>
        /\ ret.ok
        /\ Len(ret.val.sigs) = N
        /\ base64url_decode(ret.val.hash).ok
        /\ \A i \in 1..N :
              verify_signature(base64url_decode(ret.val.hash).val, ret.val.sigs[i].sig,
                               call.signers[i].kp.public_key) = Ok(TRUE)

\* Two signers with different constructed keypairs, each signature checked.
C1_Witness ==
    /\ pc = "called"
    /\ N = 2
    /\ \A i \in 1..N : Constructed(call.signers[i].kp)
    /\ call.signers[1].kp # call.signers[2].kp
    /\ ret.ok
    /\ Len(ret.val.sigs) = 2

\* C2: in a returned envelope the hash is hash(cmd) of the cmd returned with
\* it, and every sign call was given the 32 bytes the hash decodes to, not the
\* hash string and not the cmd bytes.
C2_HashThenSign ==
    (Called /\ ret.ok) =>
        /\ ret.val.hash = hash(ret.val.cmd)
        /\ Len(signLog) = N
        /\ \A k \in 1..Len(signLog) :
              /\ signLog[k].msg = base64url_decode(ret.val.hash).val
              /\ Len(signLog[k].msg) = DigestLen
              /\ signLog[k].msg # ret.val.hash
              /\ signLog[k].msg # ret.val.cmd

C2_Witness ==
    /\ pc = "called"
    /\ ret.ok
    /\ Len(signLog) = 2
    /\ signLog[2].msg = base64url_decode(hash(ret.val.cmd)).val

\* The sign calls of the last prepare_exec that returned a typed error.
SignErrors == {k \in 1..Len(signLog) : ~signLog[k].out.ok /\ ~Panicked(signLog[k].out)}

\* The signer whose signature is the k-th of those that signed.
KthSigned(k) ==
    CHOOSE i \in 1..Len(signLog) :
        signLog[i].out.ok /\ Cardinality({j \in 1..i : signLog[j].out.ok}) = k

\* C3: when sign returns an error for one or more of the N signers, the call
\* still returns Ok; the signatures are those of the signers whose sign call
\* succeeded, in signer order, N minus the number of failures in all; and the
\* serialized signers list still has N entries.
C3_SignErrorsOmitted ==
    (pc = "called" /\ SignErrors # {}) =>
        /\ ret.ok
        /\ Len(ret.val.sigs) = N - Cardinality(SignErrors)
        /\ \A k \in 1..Len(ret.val.sigs) : ret.val.sigs[k].sig = signLog[KthSigned(k)].out.val
        /\ ArrayLen(Member(Body, K_signers).text) = N

TypedErrors ==
    {"HexError", "Base64Error", "Ed25519Error", "InvalidSeedLength",
     "SerializationError", "SigningError"}

\* C4: from_secret_key, sign, verify, verify_signature and prepare_exec end in
\* a returned value or a typed error on every input, never in a panic.
C4_NoPanic ==
    (pc # "build") => (ret.ok \/ ret.err \in TypedErrors)

\* C5: every PactKeypair a caller holds has as public_key the hex encoding of
\* the public key derived from its secret_key.
C5_PublicKeyDerived ==
    \A i \in 1..Len(signers) :
        LET secret_bytes == hex_to_bin(signers[i].kp.secret_key)
        IN  /\ secret_bytes.ok
            /\ Len(secret_bytes.val) = KeyLen
            /\ signers[i].kp.public_key = bin_to_hex(VerifyingKeyOf(secret_bytes.val))

\* C6: a call without env_data writes as payload.exec.data the empty JSON
\* object, the value ExecCommand::new gives.
C6_DataDefaultsToEmptyObject ==
    (Called /\ ret.ok /\ ~call.env_data.some) =>
        /\ Member(ExecOf(Body), K_data).found
        /\ Member(ExecOf(Body), K_data).text = SerValue(ExecCommandNew(call.pact_code).data)

\* C7 (as claimed): with network_id absent the body has no networkId key.
C7_NetworkIdOmitted ==
    (Called /\ ret.ok /\ ~call.network_id.some) => ~Member(Body, K_networkId).found

\* C7 (amended): the body always has the key networkId; its value is null
\* when network_id is absent and the string s when network_id is Some(s).
C7_NetworkIdNullOrString ==
    (Called /\ ret.ok) =>
        LET m == Member(Body, K_networkId)
        IN  /\ m.found
            /\ IF call.network_id.some
               THEN IsJsonString(m.text) /\ JsonString(m.text) = call.network_id.v
               ELSE m.text = JsonNull

C7_Witness ==
    /\ pc = "called"
    /\ ret.ok
    /\ ~call.network_id.some
    /\ Member(Body, K_networkId).text = JsonNull

\* C8: with nonce Some(n) the nonce of the serialized body is the string n,
\* the empty string included, and the nonce made from the random draw of the
\* call appears nowhere in the body.
C8_ExplicitNonceVerbatim ==
    (Called /\ ret.ok /\ call.nonce.some) =>
        LET m == Member(Body, K_nonce)
        IN  /\ m.found
            /\ IsJsonString(m.text)
            /\ JsonString(m.text) = call.nonce.v
            /\ \A k \in 1..Len(rngLog) : ~Contains(Body, generate_random_nonce(rngLog[k]))

\* The empty nonce, and one whose bytes need escaping, both read back.
C8_Witness ==
    /\ pc = "called"
    /\ ret.ok
    /\ call.nonce.some
    /\ call.nonce.v = <<>>
    /\ Member(Body, K_nonce).text = <<34, 34>>
    /\ Len(rngLog) = 1

\* The nonce read back from a serialized body.
NonceOf(body) == JsonString(Member(body, K_nonce).text)

\* C9: without a nonce argument the nonce of the body is the unpadded URL-safe
\* base64 of the first 24 bytes of the 32-byte draw made for it, 32 characters
\* long; of two such calls, draws that differ within their first 24 bytes give
\* different nonces and draws that differ only after them give the same nonce.
C9_RandomNonceFromFirst24Bytes ==
    (pc = "again" /\ ~call.nonce.some /\ ret.ok /\ prev.out.ok) =>
        LET d1 == prev.rng[2]
            d2 == rngLog[2]
            n1 == NonceOf(prev.out.val.cmd)
            n2 == NonceOf(ret.val.cmd)
        IN  /\ Len(d1) = RandLen /\ Len(d2) = RandLen
            /\ n1 = base64url_encode(SubSeq(d1, 1, NonceLen))
            /\ n2 = base64url_encode(SubSeq(d2, 1, NonceLen))
            /\ Len(n1) = 32 /\ Len(n2) = 32
            /\ (SubSeq(d1, 1, NonceLen) # SubSeq(d2, 1, NonceLen)) => n1 # n2
            /\ (SubSeq(d1, 1, NonceLen) = SubSeq(d2, 1, NonceLen)) => n1 = n2

\* Two calls whose draws differ, but only after byte 24: the same nonce.
C9_Witness ==
    /\ pc = "again"
    /\ ~call.nonce.some
    /\ ret.ok /\ prev.out.ok
    /\ prev.rng[2] # rngLog[2]
    /\ SubSeq(prev.rng[2], 1, NonceLen) = SubSeq(rngLog[2], 1, NonceLen)
    /\ NonceOf(prev.out.val.cmd) = NonceOf(ret.val.cmd)

\* C10: two calls with equal arguments and an explicit nonce return the same
\* cmd string, the same hash and the same signature list, whatever the random
\* source yields during either call.
C10_DeterministicGivenNonce ==
    (pc = "again" /\ call.nonce.some) =>
        /\ ret.ok = prev.out.ok
        /\ ret.ok =>
              /\ ret.val.cmd = prev.out.val.cmd
              /\ ret.val.hash = prev.out.val.hash
              /\ ret.val.sigs = prev.out.val.sigs

\* Two calls that were handed different draws and returned the same envelope.
C10_Witness ==
    /\ pc = "again"
    /\ call.nonce.some
    /\ Len(call.signers) >= 1
    /\ rngLog # prev.rng
    /\ ret.ok
    /\ ret = prev.out

\* The parts of a serialized body.
MetaOf(body) == Member(body, K_meta).text

SignersOf(body) == Elements(Member(body, K_signers).text)

VerifiersOf(body) == Elements(Member(body, K_verifiers).text)

\* C11: the body is a JSON object with keys in the order nonce, meta, signers,
\* verifiers, networkId, payload; meta has chainId, sender, gasLimit, gasPrice,
\* ttl, creationTime; every signer has scheme, pubKey, clist; every verifier
\* has name, proof, clist; payload is {"exec": {"code": .., "data": ..}}.
C11_FieldOrderFixed ==
    (Called /\ ret.ok) =>
        /\ KeysOf(Body) = <<K_nonce, K_meta, K_signers, K_verifiers, K_networkId, K_payload>>
        /\ KeysOf(MetaOf(Body)) =
              <<K_chainId, K_sender, K_gasLimit, K_gasPrice, K_ttl, K_creationTime>>
        /\ \A i \in 1..Len(SignersOf(Body)) :
              KeysOf(SignersOf(Body)[i]) = <<K_scheme, K_pubKey, K_clist>>
        /\ \A i \in 1..Len(VerifiersOf(Body)) :
              KeysOf(VerifiersOf(Body)[i]) = <<K_name, K_proof, K_clist>>
        /\ KeysOf(Member(Body, K_payload).text) = <<K_exec>>
        /\ KeysOf(ExecOf(Body)) = <<K_code, K_data>>

\* A body with two signers, two verifiers, a network id and env data.
C11_Witness ==
    /\ pc = "called"
    /\ ret.ok
    /\ Len(SignersOf(Body)) = 2
    /\ Len(VerifiersOf(Body)) = 2
    /\ call.network_id.some
    /\ call.env_data.some
    /\ KeysOf(VerifiersOf(Body)[2]) = <<K_name, K_proof, K_clist>>

\* Whether the JSON array `text` is the capability list cs, element by element.
IsCapList(text, cs) ==
    /\ Len(Elements(text)) = Len(cs)
    /\ \A j \in 1..Len(cs) :
          LET el   == Elements(text)[j]
              args == Elements(Member(el, K_args).text)
          IN  /\ JsonString(Member(el, K_name).text) = cs[j].name
              /\ Len(args) = Len(cs[j].args)
              /\ \A k \in 1..Len(args) : args[k] = SerValue(cs[j].args[k])

\* C12: the serialized signers list has one entry per input signer, entry i
\* with scheme "ED25519", the i-th keypair's public_key and the i-th capability
\* list in its order, a keypair given twice appearing twice; the serialized
\* verifiers list is the supplied verifiers in their order.
C12_SignersVerifiersInOrder ==
    (Called /\ ret.ok) =>
        /\ Len(SignersOf(Body)) = N
        /\ \A i \in 1..N :
              LET el == SignersOf(Body)[i]
              IN  /\ JsonString(Member(el, K_scheme).text) = ED25519
                  /\ JsonString(Member(el, K_pubKey).text) = call.signers[i].kp.public_key
                  /\ IsCapList(Member(el, K_clist).text, call.signers[i].caps)
        /\ Len(VerifiersOf(Body)) = Len(call.verifiers)
        /\ \A i \in 1..Len(call.verifiers) :
              LET el == VerifiersOf(Body)[i]
              IN  /\ JsonString(Member(el, K_name).text) = call.verifiers[i].name
                  /\ JsonString(Member(el, K_proof).text) = call.verifiers[i].proof
                  /\ IsCapList(Member(el, K_clist).text, call.verifiers[i].clist)

\* The same keypair twice with different capability lists, and two verifiers.
C12_Witness ==
    /\ pc = "called"
    /\ ret.ok
    /\ N = 2
    /\ call.signers[1].kp = call.signers[2].kp
    /\ call.signers[1].caps # call.signers[2].caps
    /\ call.verifiers = <<Verifier2, Verifier1>>
    /\ Len(SignersOf(Body)) = 2

-----------------------------------------------------------------------------
(* The crypto module: what the claims say of its inputs and outputs *)

IsHexChar(c) == c \in (48..57) \cup (97..102) \cup (65..70)

IsLowerHexChar(c) == c \in (48..57) \cup (97..102)

IsHexString(s) == Len(s) % 2 = 0 /\ \A i \in 1..Len(s) : IsHexChar(s[i])

IsUrlSafeChar(c) == c \in (65..90) \cup (97..122) \cup (48..57) \cup {45, 95}

\* Keypairs that generate or from_secret_key return on the inputs offered.
CryptoConstructed ==
    {generate(rand_bytes) : rand_bytes \in Seeds}
        \cup {from_secret_key(seed).val : seed \in {x \in SeedStrings : from_secret_key(x).ok}}

\* C13: from_secret_key(s) ends in exactly one of three ways: the hex decoding
\* error when s has odd length or a character that is no hex digit, the
\* invalid-length error when s is hex of a number of bytes other than 32, and
\* otherwise a keypair whose public_key is derived from the 32 decoded bytes.
C13_FromSecretKeyOutcomes ==
    (call.op = "from_secret_key") =>
        LET s == call.seed
        IN  /\ ~IsHexString(s) => ret = Err("HexError")
            /\ (IsHexString(s) /\ Len(s) # 2 * KeyLen) => ret = Err("InvalidSeedLength")
            /\ (IsHexString(s) /\ Len(s) = 2 * KeyLen) =>
                  /\ ret.ok
                  /\ ret.val.public_key = bin_to_hex(VerifyingKeyOf(hex_to_bin(s).val))

\* Valid hex of 33 bytes: the length error, not a keypair.
C13_Witness ==
    /\ call.op = "from_secret_key"
    /\ call.seed = LongSecret
    /\ ret = Err("InvalidSeedLength")

\* C14: a keypair made by generate or from_secret_key signs every message,
\* the empty one included, and verifies its own signature of it: Ok(true).
C14_SignThenVerifyTrue ==
    /\ (call.op = "sign") => call.kp \notin CryptoConstructed
    /\ (call.op = "sign_verify" /\ call.signer \in CryptoConstructed
            /\ call.kp = call.signer /\ call.msg = call.signed) => ret = Ok(TRUE)

\* A keypair restored from an upper-case seed verifies its signature of the
\* empty message.
C14_Witness ==
    /\ call.op = "sign_verify"
    /\ call.signer = from_secret_key(UpperSecret).val
    /\ call.kp = call.signer
    /\ call.signed = <<>>
    /\ call.msg = <<>>
    /\ ret = Ok(TRUE)

\* C15 (as claimed): for keypairs with different secret keys and one message,
\* and for one keypair and two different messages, verify returns Ok(false).
C15_WrongKeyOrMessageFalse ==
    (call.op = "sign_verify") =>
        /\ (call.signer.secret_key # call.kp.secret_key /\ call.msg = call.signed) =>
              ret = Ok(FALSE)
        /\ (call.signer = call.kp /\ call.msg # call.signed) => ret = Ok(FALSE)

\* C15 (amended): k1.verify(m1, k2.sign(m2)) returns Ok(false) whenever the
\* public_key k1 holds is a valid key and either it is not the public key of
\* the 32 bytes k2's secret_key decodes to, or m1 differs from m2.  Keypairs
\* made by generate or from_secret_key hold different public keys exactly
\* when their secret keys decode to different bytes; two spellings of one
\* seed, in lower and in upper case, are the same key.
C15_WrongKeyOrMessageFalseAmended ==
    (call.op = "sign_verify") =>
        LET pub_bytes == hex_to_bin(call.kp.public_key)
            seed      == hex_to_bin(call.signer.secret_key).val
        IN  (/\ IsHexString(call.kp.public_key)
             /\ Len(pub_bytes.val) = KeyLen
             /\ IsCurvePoint(pub_bytes.val)
             /\ (pub_bytes.val # VerifyingKeyOf(seed) \/ call.msg # call.signed))
                => ret = Ok(FALSE)

\* Two generated keypairs, one message: Ok(false).
C15_Witness ==
    /\ call.op = "sign_verify"
    /\ call.signer = generate(SeedOf(1))
    /\ call.kp = generate(SeedOf(2))
    /\ call.msg = call.signed
    /\ ret = Ok(FALSE)

\* Whether the strings handed to verify_signature decode as the claims say.
SignatureDecodes(signature) == IsHexString(signature) /\ Len(signature) = 2 * SigLen

PublicKeyDecodes(public_key) == IsHexString(public_key) /\ Len(public_key) = 2 * KeyLen

VerifyCalled == call.op \in {"verify", "sign_verify"}

\* C16 (as claimed): verify fails exactly when the signature or the stored
\* public key is not hex or has the wrong length, and otherwise returns Ok(b)
\* with b true iff the signature is valid.
C16_VerifyErrorsOnDecodingOnly ==
    VerifyCalled =>
        IF SignatureDecodes(call.signature) /\ PublicKeyDecodes(call.kp.public_key)
        THEN ret = Ok(Ed25519Verify(hex_to_bin(call.kp.public_key).val, call.msg,
                                    hex_to_bin(call.signature).val))
        ELSE ~ret.ok /\ ret.err \in TypedErrors

\* C16 (amended): verify fails with HexError when the signature or the stored
\* public key is not hex, with InvalidSeedLength when the public key is hex of
\* other than 32 bytes, with Ed25519Error when the signature is hex of other
\* than 64 bytes or the 32 public key bytes encode no curve point; in every
\* other case it returns Ok(b), b true iff the signature is valid.
C16_VerifyErrors ==
    VerifyCalled =>
        LET signature  == call.signature
            public_key == call.kp.public_key
        IN  IF ~IsHexString(signature) \/ ~IsHexString(public_key)
            THEN ret = Err("HexError")
            ELSE IF Len(public_key) # 2 * KeyLen
            THEN ret = Err("InvalidSeedLength")
            ELSE IF Len(signature) # 2 * SigLen \/ ~IsCurvePoint(hex_to_bin(public_key).val)
            THEN ret = Err("Ed25519Error")
            ELSE ret = Ok(Ed25519Verify(hex_to_bin(public_key).val, call.msg,
                                        hex_to_bin(signature).val))

\* A well-formed signature checked under 32 bytes that encode no curve point.
C16_Witness ==
    /\ call.op = "sign_verify"
    /\ SignatureDecodes(call.signature)
    /\ PublicKeyDecodes(call.kp.public_key)
    /\ ~IsCurvePoint(hex_to_bin(call.kp.public_key).val)
    /\ ret = Err("Ed25519Error")

\* C17: from_secret_key on the secret_key of a generated keypair returns a
\* keypair with the same public_key and secret_key; and from_secret_key(s)
\* keeps s, as given, as secret_key.
C17_RestoreSameKeypair ==
    /\ (call.op = "restore") => ret = Ok(call.kp)
    /\ (call.op = "from_secret_key" /\ ret.ok) => ret.val.secret_key = call.seed

C17_Witness ==
    /\ call.op = "restore"
    /\ ret.ok
    /\ ret.val.public_key = call.kp.public_key
    /\ ret.val.secret_key = call.kp.secret_key

\* C18: hex_to_bin(bin_to_hex(x)) = Ok(x) and
\* base64url_decode(base64url_encode(x)) = Ok(x), the empty x included.
C18_RoundTrips ==
    (call.op = "encode") =>
        /\ ret.val.unhex = Ok(call.x)
        /\ ret.val.unb64 = Ok(call.x)

\* Two bytes (a base64 group left incomplete), both nibbles of each in use.
C18_Witness ==
    /\ call.op = "encode"
    /\ call.x = <<171, 255>>
    /\ ret.val.unhex = Ok(<<171, 255>>)
    /\ ret.val.unb64 = Ok(<<171, 255>>)

\* C19: bin_to_hex gives lower-case hex of twice the input length; hex_to_bin
\* fails exactly on odd length or a character that is no hex digit;
\* base64url_encode writes no '='; base64url_decode fails on a character
\* outside the URL-safe alphabet ('=' included) and on a length of 1 mod 4.
C19_EncodingContracts ==
    /\ (call.op = "encode") =>
          /\ Len(ret.val.hex) = 2 * Len(call.x)
          /\ \A i \in 1..Len(ret.val.hex) : IsLowerHexChar(ret.val.hex[i])
          /\ \A i \in 1..Len(ret.val.b64) : ret.val.b64[i] # 61
    /\ (call.op = "decode") =>
          /\ ret.val.hex.ok <=> IsHexString(call.s)
          /\ ~ret.val.hex.ok => ret.val.hex.err = "HexError"
          /\ ((\E i \in 1..Len(call.s) : ~IsUrlSafeChar(call.s[i])) \/ Len(call.s) % 4 = 1) =>
                (~ret.val.b64.ok /\ ret.val.b64.err = "Base64Error")

\* A string of hex digits of both cases ending in '=': both decoders fail.
C19_Witness ==
    /\ call.op = "decode"
    /\ call.s = <<97, 70, 97, 61>>
    /\ ~ret.val.hex.ok
    /\ ~ret.val.b64.ok

\* C20: hash returns, for every input, 43 characters of the URL-safe alphabet
\* with no padding, which base64url_decode turns into 32 bytes; the same
\* input gives the same output; so the decoding step of prepare_exec succeeds.
C20_HashShape ==
    (call.op = "hash") =>
        /\ ret.val.hash = hash(call.data)
        /\ Len(ret.val.hash) = 43
        /\ \A i \in 1..Len(ret.val.hash) : IsUrlSafeChar(ret.val.hash[i])
        /\ ret.val.hash_bytes.ok
        /\ Len(ret.val.hash_bytes.val) = DigestLen
        /\ base64url_encode(ret.val.hash_bytes.val) = ret.val.hash

\* The hash of a serialized command body, decoded.
C20_Witness ==
    /\ call.op = "hash"
    /\ Len(call.data) > MaxBytes
    /\ Len(ret.val.hash) = 43
    /\ ret.val.hash_bytes.ok

\* C21: a keypair from generate or from_secret_key holds a public_key of 64
\* hex characters and its sign returns, for every message, 128 hex characters;
\* every signature of an envelope prepare_exec returns has that form.
C21_SignatureAndKeyLengths ==
    /\ \A i \in 1..Len(signers) :
          Constructed(signers[i].kp) =>
              /\ Len(signers[i].kp.public_key) = 2 * KeyLen
              /\ IsHexString(signers[i].kp.public_key)
    /\ (call.op = "sign" /\ Constructed(call.kp)) =>
          /\ ret.ok
          /\ Len(ret.val) = 2 * SigLen
          /\ IsHexString(ret.val)
    /\ (Called /\ ret.ok) =>
          \A k \in 1..Len(ret.val.sigs) :
              /\ Len(ret.val.sigs[k].sig) = 2 * SigLen
              /\ IsHexString(ret.val.sigs[k].sig)

\* An envelope with one signature although two signers were given.
C21_Witness ==
    /\ pc = "called"
    /\ ret.ok
    /\ N = 2
    /\ Len(ret.val.sigs) = 1
    /\ Len(ret.val.sigs[1].sig) = 128

-----------------------------------------------------------------------------
(* Meta: what the claims say of its fields *)

\* The value of the last builder call on `field`, `initial` when there is none.
LastSet(field, initial) ==
    LET hits == {i \in 1..Len(call.setters) : call.setters[i].field = field}
    IN  IF hits = {} THEN initial
        ELSE call.setters[CHOOSE i \in hits : \A j \in hits : j <= i].value

\* C22: Meta::new gives gas_limit 1500, gas_price 0.00000001, ttl 3600 and the
\* chain_id and sender given; after any builder calls each of gas_limit,
\* gas_price and ttl holds the value of the last call on it (or what the Meta
\* was made with), and chain_id, sender and creation_time are as made.
C22_MetaDefaultsAndSetters ==
    LET made == call.made
    IN  /\ (made.how = "new") =>
              /\ made.meta.gas_limit = 1500
              /\ made.meta.gas_price = F64(<<1>>, -8)
              /\ FormatF64(made.meta.gas_price) = Str(<<"1", "e", "-", "8">>)
              /\ made.meta.ttl = 3600
        /\ made.meta.chain_id = made.chain_id
        /\ made.meta.sender = made.sender
        /\ prev.chain_id = made.chain_id
        /\ prev.sender = made.sender
        /\ prev.creation_time = made.meta.creation_time
        /\ prev.gas_limit = LastSet("gas_limit", made.meta.gas_limit)
        /\ prev.gas_price = LastSet("gas_price", made.meta.gas_price)
        /\ prev.ttl = LastSet("ttl", made.meta.ttl)

\* The limit set twice on a Meta from Meta::new: the second value, nothing else.
C22_Witness ==
    /\ call.made.how = "new"
    /\ Len(call.setters) = 2
    /\ call.setters[1] = [field |-> "gas_limit", value |-> 0]
    /\ call.setters[2] = [field |-> "gas_limit", value |-> 1000]
    /\ prev.gas_limit = 1000
    /\ prev.ttl = 3600

\* The creation time a Meta is made with: the clock reading for Meta::new, the
\* argument for Meta::with_params.
CreationTimeMade ==
    IF call.made.how = "new" THEN call.made.clock ELSE call.made.meta.creation_time

\* C23: creation_time is what the Meta was made with (the clock reading of
\* Meta::new, the argument of Meta::with_params) after every builder call and
\* every prepare_exec call with a clone of it, and the creationTime of every
\* serialized body is that value, not the clock reading at the call.
C23_CreationTimeFixed ==
    /\ prev.creation_time = CreationTimeMade
    /\ (pc = "called") =>
          /\ ret.ok
          /\ Member(MetaOf(Body), K_creationTime).text = Decimal(CreationTimeMade)

\* The second call with a Meta from Meta::new, two seconds after it was made.
C23_Witness ==
    /\ pc = "called"
    /\ call.made.how = "new"
    /\ call.calls = 2
    /\ call.clock = call.made.clock + 2
    /\ Len(call.setters) >= 1
    /\ Member(MetaOf(Body), K_creationTime).text = Decimal(call.made.clock)

-----------------------------------------------------------------------------
(* Cap: the arguments held *)

\* The JSON value that denotes a Rust value: a number for every f64.
Denotes(arg) ==
    CASE arg.t = "str" -> JStr(arg.v)
      [] arg.t = "int" -> JInt(arg.v)
      [] arg.t = "f64" -> JFloat(arg.v)
      [] arg.t = "value" -> arg.v.json

\* The name and the arguments the constructor call was given.
NameGiven == IF call.op = "transfer" THEN COIN_TRANSFER ELSE call.name

ArgsGiven ==
    CASE call.op = "new" -> <<>>
      [] call.op = "with_args" -> call.args
      [] call.op = "transfer" ->
            <<Denotes(Arg("str", call.from)), Denotes(Arg("str", call.to)),
              Denotes(Arg("f64", call.amount))>>

\* C24: Cap::with_args keeps its args in order, Cap::transfer gives the name
\* coin.TRANSFER and the args from, to, amount, Cap::new gives no args, and
\* every add_arg appends its argument, name and earlier args staying.
C24_CapArgsInOrder ==
    (pc = "called") =>
        /\ ret.name = NameGiven
        /\ ret.args = ArgsGiven
                        \o Seq1([i \in 1..Len(call.added) |-> Denotes(call.added[i])])
        /\ (call.added # <<>>) =>
              /\ ret.name = prev.name
              /\ ret.args = Append(prev.args, Denotes(call.added[Len(call.added)]))

\* The same for amounts and f64 arguments that are finite numbers.
FiniteArgs ==
    /\ (call.op = "transfer") => IsFinite(call.amount)
    /\ \A i \in 1..Len(call.added) :
          (call.added[i].t = "f64") => IsFinite(call.added[i].v)

CapArgsInOrderWhenFinite == (pc = "called" /\ FiniteArgs) => C24_CapArgsInOrder

-----------------------------------------------------------------------------
(* fetch: what is posted, where, and what comes back *)

\* The request that went out for the call made (there is at most one).
Sent == call.sent[1]

WasSent == pc = "called" /\ call.sent # <<>>

\* The text of the envelope inside the body posted.
EnvelopeText ==
    IF call.op = "local" THEN Sent.body
    ELSE Elements(Member(Sent.body, K_cmds).text)[1]

SigTexts == Elements(Member(EnvelopeText, K_sigs).text)

\* C25: the body local posts is an object of sigs, cmd and hash in which cmd
\* and hash are the strings of the envelope given and sigs lists its signatures
\* as {"sig": s}, as many and in the same order; the body send posts is an
\* object whose only member cmds is a list of exactly that one envelope.
C25_EnvelopePostedUnmodified ==
    WasSent =>
        /\ Len(call.sent) = 1
        /\ (call.op = "send") =>
              /\ KeysOf(Sent.body) = <<K_cmds>>
              /\ Len(Elements(Member(Sent.body, K_cmds).text)) = 1
        /\ {KeysOf(EnvelopeText)[i] : i \in 1..Len(KeysOf(EnvelopeText))}
              = {K_sigs, K_cmd, K_hash}
        /\ Len(KeysOf(EnvelopeText)) = 3
        /\ IsJsonString(Member(EnvelopeText, K_cmd).text)
        /\ JsonString(Member(EnvelopeText, K_cmd).text) = call.cmd.cmd
        /\ IsJsonString(Member(EnvelopeText, K_hash).text)
        /\ JsonString(Member(EnvelopeText, K_hash).text) = call.cmd.hash
        /\ Len(SigTexts) = Len(call.cmd.sigs)
        /\ \A k \in 1..Len(SigTexts) :
              /\ KeysOf(SigTexts[k]) = <<K_sig>>
              /\ IsJsonString(Member(SigTexts[k], K_sig).text)
              /\ JsonString(Member(SigTexts[k], K_sig).text) = call.cmd.sigs[k].sig

\* The hand-written envelope with three signatures, sent.
C25_Witness ==
    /\ WasSent
    /\ call.op = "send"
    /\ Len(call.cmd.sigs) = 3
    /\ Len(SigTexts) = 3
    /\ JsonString(Member(SigTexts[1], K_sig).text) = <<98>>
    /\ JsonString(Member(SigTexts[2], K_sig).text) = <<97>>

HeadersNamed(name) == {i \in 1..Len(Sent.headers) : Sent.headers[i][1] = name}

\* C29: the host of a config is base + "/chainweb/0.0/" + network + "/chain/"
\* + chain + "/pact", its timeout 30 and its api key none until with_timeout
\* or with_api_key sets that field and no other; local posts to host +
\* "/api/v1/local", send to host + "/api/v1/send", and a request carries the
\* X-API-Key header, with the key, exactly when the config has an api key.
C29_ConfigAndEndpoints ==
    /\ prev.host = call.base_url \o Str(<<"/","c","h","a","i","n","w","e","b","/","0",".","0","/">>)
                      \o call.network_id \o Str(<<"/","c","h","a","i","n","/">>)
                      \o call.chain_id \o Str(<<"/","p","a","c","t">>)
    /\ prev.timeout = LastSet("timeout", 30)
    /\ prev.api_key = LastSet("api_key", None)
    /\ WasSent =>
          /\ Sent.url = prev.host \o Str(<<"/","a","p","i","/","v","1","/">>)
                           \o (IF call.op = "local" THEN Str(<<"l","o","c","a","l">>)
                               ELSE Str(<<"s","e","n","d">>))
          /\ (HeadersNamed(X_API_KEY) # {}) <=> prev.api_key.some
          /\ prev.api_key.some =>
                /\ Cardinality(HeadersNamed(X_API_KEY)) = 1
                /\ \A i \in HeadersNamed(X_API_KEY) : Sent.headers[i][2] = prev.api_key.v

\* A config whose timeout was set after its key, used by local.
C29_Witness ==
    /\ WasSent
    /\ call.op = "local"
    /\ Len(call.setters) = 2
    /\ call.setters[1].field = "api_key"
    /\ call.setters[2].field = "timeout"
    /\ prev.timeout = 5
    /\ HeadersNamed(X_API_KEY) # {}

-----------------------------------------------------------------------------
(* prepare_exec step by step: calls side by side, and the order of steps *)

\* Call p run alone: the function applied to its arguments and its draws.
Alone(p) ==
    prepare_exec(Slice(StepPool, call[p].idx), <<>>, call[p].nonce, PactCode, NoValue,
                 call[p].meta, call[p].network_id, DrawsOn(p))

\* C27: however the steps of concurrent prepare_exec calls interleave, a call
\* that has finished has the outcome, the sign calls and the draws it has when
\* run alone with its arguments and draws; a call that has not begun has
\* nothing written to its variables; the keypairs and capability lists in
\* memory are as they were.
C27_ConcurrentCallsIndependent ==
    /\ signers = StepPool
    /\ \A p \in Calls :
          /\ (pc[p] = "start") => ret[p] = NoLocals
          /\ (pc[p] = "done") =>
                /\ ret[p].out = Alone(p).out
                /\ signLog[p] = Alone(p).signed
                /\ rngLog[p] = Alone(p).rng

\* Two calls on the same keypair with different draws, both finished, the
\* second before the first had hashed.
C27_Witness ==
    /\ pc[1] = "done" /\ pc[2] = "done"
    /\ call[1].idx = <<1, 2>> /\ call[2].idx = <<1>>
    /\ ret[1].out.ok /\ ret[2].out.ok
    /\ ret[1].out.val.cmd # ret[2].out.val.cmd
    /\ Len(ret[1].out.val.sigs) = 2

\* The steps of a call on n signers, in order.
AllSteps(n) ==
    <<Step("build", 0), Step("serialize", 0), Step("hash", 0), Step("decode", 0)>>
        \o Seq1([i \in 1..n |-> Step("sign", i)]) \o <<Step("return", 0)>>

\* The body and the hash of call p as its arguments alone determine them.
CmdOfArgs(p) ==
    SerCommandPayload(BuildPayload(Slice(StepPool, call[p].idx), <<>>, call[p].nonce,
                                   PactCode, NoValue, call[p].meta, call[p].network_id,
                                   DrawsOn(p)))

StepsSoFarInOrder(p) == prev[p] = SubSeq(AllSteps(Len(call[p].idx)), 1, Len(prev[p]))

\* A finished call took all its steps and returned the envelope of the cmd and
\* hash it held before the first sign call, which every sign call was given.
ReturnedInOrder(p) ==
    /\ ret[p].out.ok
    /\ prev[p] = AllSteps(Len(call[p].idx))
    /\ ret[p].out.val.cmd = CmdOfArgs(p)
    /\ ret[p].out.val.hash = hash(CmdOfArgs(p))
    /\ \A k \in 1..Len(signLog[p]) :
          /\ signLog[p][k].signer = k
          /\ signLog[p][k].msg = base64url_decode(ret[p].out.val.hash).val

\* A finished call stopped at an error of serializing or decoding: no sign call.
ErrBeforeSign(p) ==
    /\ ~ret[p].out.ok
    /\ ~Panicked(ret[p].out)
    /\ signLog[p] = <<>>
    /\ Len(prev[p]) <= 4

\* C28: every execution of prepare_exec builds the payload, serializes it
\* once, hashes, decodes the digest and calls sign once per signer in input
\* order; cmd and hash are those fixed before the first sign call whatever the
\* sign calls return; an error of serializing or decoding returns Err before
\* any sign call.
C28_StepsInOrder ==
    \A p \in Calls :
        /\ StepsSoFarInOrder(p)
        /\ (pc[p] = "done") => (ReturnedInOrder(p) \/ ErrBeforeSign(p))

\* The same, but for the executions that a sign call ends by panicking.
StepsInOrderUnlessPanic ==
    \A p \in Calls :
        /\ StepsSoFarInOrder(p)
        /\ (pc[p] = "done") =>
              \/ ReturnedInOrder(p)
              \/ ErrBeforeSign(p)
              \/ /\ Panicked(ret[p].out)
                 /\ Panicked(signLog[p][Len(signLog[p])].out)

=============================================================================
